---- MODULE Spec2Model ----
(***************************************************************************)
(* Model of the estimation data-bundle writer of activitysim               *)
(* (activitysim/abm/models/util/estimation.py): the module-level           *)
(* EstimationManager, the per-model Estimator objects it hands out, and    *)
(* the estimation_data_bundle/<model>/ directories they write to.          *)
(*                                                                         *)
(* Strings that the code takes apart (file names) are sequences of tokens, *)
(* so that str.startswith / str.endswith are computed on them.  A data     *)
(* frame is a sequence of rows; a row is an index value and a set of       *)
(* cells <<table, column, value>>.  A Python call that raises is recorded  *)
(* in last.exc, with the state changes made before the raise kept.         *)
(***************************************************************************)
EXTENDS Integers, Sequences, FiniteSets, TLC

VARIABLES configs,      \* the configs directory: the parsed estimation.yaml
          manager,      \* the module-level EstimationManager
          estimators,   \* every Estimator object constructed so far
          fs,           \* estimation_data_bundle: directories and their entries
          last,         \* the last call made: its arguments and its outcome
          hist,         \* history: what each Estimator was asked to write
          ncalls        \* number of Estimator method calls made so far

\* location_choice.py: one process running the location choice steps
VARIABLES table_registry,  \* the table registry (inject / pipeline): name -> frame
          locutor,         \* the injectable `locutor` of this process
          done,            \* the location choice steps that returned, in order
          trace_label,     \* the step now inside iterate_location_choice
          step_settings,   \* its model_settings
          spc,             \* its shadow price calculator
          pc,              \* the statement of iterate_location_choice reached
          iteration,       \* the loop variable `iteration`
          choices_df,      \* the local choices_df
          save_sample_df,  \* the local save_sample_df
          persons_df,      \* the local persons_df (the value returned)
          calls,           \* history: the calls made on spc and the registry
          raised           \* the exception that ended the last step, if any

\* activitysim.core.pipeline, as driven by test_pipeline.py
VARIABLES pipeline_store,  \* the checkpoint store on disk
          pipeline_state,  \* the open pipeline: its checkpoints and live tables
          pipe_last,       \* the last pipeline call made and its outcome
          resumed,         \* history: what the last open_pipeline resumed from
          nruns            \* number of open_pipeline calls made so far

\* example_estimation/infer.py: the survey tables and what was inferred
VARIABLES survey_persons,  \* index of the survey persons table
          survey_tours,    \* rows of the survey tours table
          inferred         \* the Series returned by infer_mandatory_tour_frequency

estvars == <<configs, manager, estimators, fs, last, hist, ncalls>>

locvars == <<table_registry, locutor, done, trace_label, step_settings, spc, pc,
             iteration, choices_df, save_sample_df, persons_df, calls, raised>>

pipevars == <<pipeline_store, pipeline_state, pipe_last, resumed, nruns>>

infervars == <<survey_persons, survey_tours, inferred>>

\* core/simulate.py read_model_spec: the spec file and the table read from it
VARIABLES spec_file,
          model_spec

readvars == <<spec_file, model_spec>>

\* tour_mode_choice.py and util/mode.py: the tour mode choice step
VARIABLES mode_spec_file,
          mode_spec,
          tours_table,
          resolved,
          step_log,
          step_exc,
          mode_calls

modevars == <<mode_spec_file, mode_spec, tours_table, resolved, step_log, step_exc, mode_calls>>

\* core/simulate.py simple_simulate: one call and its outcome
VARIABLES sim_choosers,
          sim_spec,
          sim_chunk_size,
          sim_estimator,
          base_seed,
          rng_offsets,
          expression_values_written,
          log_lines,
          sim_result

simvars == <<sim_choosers, sim_spec, sim_chunk_size, sim_estimator, base_seed, rng_offsets, expression_values_written, log_lines, sim_result>>

vars == <<estvars, locvars, pipevars, infervars, readvars, modevars, simvars>>

\* what the actions of one subsystem leave unchanged
NotEstimation == <<locvars, pipevars, infervars, readvars, modevars, simvars>>
NotLocation == <<estvars, pipevars, infervars, readvars, modevars, simvars>>
NotPipeline == <<estvars, locvars, infervars, readvars, modevars, simvars>>
NotInfer == <<estvars, locvars, pipevars, readvars, modevars, simvars>>
NotRead == <<estvars, locvars, pipevars, infervars, modevars, simvars>>
NotMode == <<estvars, locvars, pipevars, infervars, readvars, simvars>>
NotEstimationNorMode == <<locvars, pipevars, infervars, readvars, simvars>>
NotSim == <<estvars, locvars, pipevars, infervars, readvars, modevars>>

---------------------------------------------------------------------------
(* Bounds of the model *)

MaxEstimators == 2
MaxCalls == 2

\* index values (chooser ids) of the data frames handed to the writers
Ids == {1, 2}

---------------------------------------------------------------------------
(* Python values *)

None == "None"
NaN == "NaN"
NoException == ""

\* bool(v) of a YAML scalar: "true"/"false" are the booleans, the rest strings
Truthy(v) == v \notin {"false", None, ""}

\* dict.get(key, default) on a partial function
DictGet(d, key, default) == IF key \in DOMAIN d THEN d[key] ELSE default

Range(s) == {s[i] : i \in DOMAIN s}

RECURSIVE Concat(_)
\* the concatenation of a sequence of sequences
Concat(ss) == IF ss = <<>> THEN <<>> ELSE Head(ss) \o Concat(Tail(ss))

---------------------------------------------------------------------------
(* Data frames *)

Row(id, table, column, value) == [id |-> id, cells |-> {<<table, column, value>>}]

HeaderRow == [id |-> 0, cells |-> {}]

IndexOf(df) == [i \in DOMAIN df |-> df[i].id]

RowsWithId(df, id) == SelectSeq(df, LAMBDA r : r.id = id)

RECURSIVE SortedIds(_)
\* the elements of a finite set of integers in ascending order
SortedIds(S) ==
    IF S = {} THEN <<>>
    ELSE LET m == CHOOSE x \in S : \A y \in S : x <= y
         IN <<m>> \o SortedIds(S \ {m})

\* DataFrame.sort_index(ascending=True, kind='mergesort'): stable
sort_index(df) ==
    Concat([k \in 1..Cardinality(Range(IndexOf(df))) |->
              RowsWithId(df, SortedIds(Range(IndexOf(df)))[k])])

HasUniqueIndex(df) == Cardinality(Range(IndexOf(df))) = Len(df)

\* pd.concat(frames, axis=0): the rows of the frames, one frame after another
concat_rows(frames) == Concat(frames)

\* pd.concat(frames, axis=1) aligns the frames on their index: frames with one
\* common index are glued row by row, frames with unique indexes are
\* outer-joined; otherwise pandas cannot reindex and raises.
concat_columns_raises(frames) ==
    /\ \E i, j \in DOMAIN frames : IndexOf(frames[i]) # IndexOf(frames[j])
    /\ \E i \in DOMAIN frames : ~HasUniqueIndex(frames[i])

concat_columns(frames) ==
    IF \A i, j \in DOMAIN frames : IndexOf(frames[i]) = IndexOf(frames[j])
    THEN [k \in DOMAIN frames[1] |->
            [id |-> frames[1][k].id,
             cells |-> UNION {frames[i][k].cells : i \in DOMAIN frames}]]
    ELSE LET ids == UNION {Range(IndexOf(frames[i])) : i \in DOMAIN frames}
             order == SortedIds(ids)
         IN [k \in DOMAIN order |->
               [id |-> order[k],
                cells |-> UNION {r.cells : r \in
                            UNION {Range(RowsWithId(frames[i], order[k])) :
                                       i \in DOMAIN frames}}]]

---------------------------------------------------------------------------
(* File names and the estimation_data_bundle directory tree *)

\* str.startswith(prefix), on token sequences
startswith(s, prefix) ==
    Len(prefix) <= Len(s) /\ SubSeq(s, 1, Len(prefix)) = prefix

\* str.endswith(suffixes) for a tuple of one-token suffixes
endswith(s, suffixes) == Len(s) >= 1 /\ s[Len(s)] \in suffixes

\* Estimator.data_directory: estimation_data_bundle/<model_name>
data_directory(self) == self.model_name

\* Estimator.file_path with a file_type: "%s_%s.%s"
file_path(self, table_name, file_type) ==
    <<self.model_name, "_", table_name, ".", file_type>>

\* os.path.isfile / os.path.exists of an entry of a bundle directory
isfile(fsys, dir, name) ==
    /\ dir \in fsys.dirs
    /\ name \in DOMAIN fsys.entries[dir]
    /\ fsys.entries[dir][name].kind = "file"

exists(fsys, dir, name) == dir \in fsys.dirs /\ name \in DOMAIN fsys.entries[dir]

RegularFile(data) == [kind |-> "file", data |-> data]

\* the directory dir with name bound to a regular file holding data
PutFile(fsys, dir, name, data) ==
    [fsys EXCEPT !.entries[dir] =
        [n \in DOMAIN @ \cup {name} |-> IF n = name THEN RegularFile(data) ELSE @[n]]]

\* DataFrame.to_csv(file_path, mode='a', header=...)
to_csv(fsys, dir, name, df, header) ==
    LET old == IF exists(fsys, dir, name) THEN fsys.entries[dir][name].data ELSE <<>>
    IN PutFile(fsys, dir, name, old \o (IF header THEN <<HeaderRow>> ELSE <<>>) \o df)

\* shutil.copy(input_path, output_path) and open(path, 'w'): the file is replaced
overwrite_file(fsys, dir, name, data) == PutFile(fsys, dir, name, data)

---------------------------------------------------------------------------
(* Estimator *)

\* Estimator.__init__, "delete estimation files": the entries it unlinks
ShouldUnlink_AnySuffix(listing, file_name, model_name) ==
    /\ startswith(file_name, <<model_name>>)
    /\ listing[file_name].kind = "file"

ShouldUnlink(listing, file_name, model_name) ==
    /\ startswith(file_name, <<model_name>>) /\ endswith(file_name, {"csv", "yaml"})
    /\ listing[file_name].kind = "file"

\* Estimator.__init__, its effect on the bundle: makedirs, then the deletions
Estimator_init_fs(fsys, model_name) ==
    LET made == [fsys EXCEPT !.dirs = @ \cup {model_name}]
        listing == made.entries[model_name]
        kept == {n \in DOMAIN listing : ~ShouldUnlink(listing, n, model_name)}
    IN [made EXCEPT !.entries[model_name] = [n \in kept |-> listing[n]]]

\* Estimator.__init__, the object it builds
Estimator_init(model_name, model_settings) ==
    LET omnibus_tables == DictGet(model_settings, "omnibus_tables", <<>>)
    IN [model_name |-> model_name,
        model_settings |-> model_settings,
        estimating |-> TRUE,
        omnibus_tables |-> omnibus_tables,
        omnibus_tables_append_columns |->
            DictGet(model_settings, "omnibus_tables_append_columns", {}),
        tables |-> [t \in {} |-> <<>>],
        tables_is_none |-> FALSE,
        tables_to_cache |->
            UNION {Range(omnibus_tables[i].tables) : i \in DOMAIN omnibus_tables},
        alt_id_column_name |-> None]

\* the outcome of a method: the object, the bundle, the exception raised (if any)
Outcome(self, fsys, exc) == [self |-> self, fs |-> fsys, exc |-> exc]

\* write_table's inner cache_table
cache_table_Replace(self, fsys, df, table_name, append) ==
    IF table_name \in DOMAIN self.tables /\ ~append
    THEN Outcome(self, fsys, "RuntimeError")
    ELSE Outcome([self EXCEPT !.tables =
                    [t \in DOMAIN @ \cup {table_name} |-> IF t = table_name THEN df ELSE @[t]]],
                 fsys, NoException)

cache_table(self, fsys, df, table_name, append) ==
    IF table_name \in DOMAIN self.tables /\ ~append
    THEN Outcome(self, fsys, "RuntimeError")
    ELSE Outcome([self EXCEPT !.tables =
                    [t \in DOMAIN @ \cup {table_name} |->
                        IF t # table_name THEN @[t]
                        ELSE IF table_name \in DOMAIN @
                             THEN concat_rows(<<@[table_name], df>>) ELSE df]],
                 fsys, NoException)

\* write_table's inner write_table
write_table_file(self, fsys, df, table_name, append) ==
    LET dir == data_directory(self)
        path == file_path(self, table_name, "csv")
        file_exists == isfile(fsys, dir, path)
    IN IF file_exists /\ ~append THEN Outcome(self, fsys, "RuntimeError")
       ELSE IF exists(fsys, dir, path) /\ ~file_exists
            THEN Outcome(self, fsys, "IsADirectoryError")
       ELSE Outcome(self, to_csv(fsys, dir, path, df, ~file_exists), NoException)

\* Estimator.write_table
write_table(self, fsys, df, table_name, append) ==
    IF ~self.estimating THEN Outcome(self, fsys, "AssertionError")
    ELSE IF table_name \in self.tables_to_cache
         THEN cache_table(self, fsys, df, table_name, append)
         ELSE write_table_file(self, fsys, df, table_name, append)

\* Estimator.write_omnibus_table, from the k-th entry of omnibus_tables on
RECURSIVE write_omnibus_table_from(_, _, _)
write_omnibus_table_from(self, fsys, k) ==
    IF k > Len(self.omnibus_tables) THEN Outcome(self, fsys, NoException)
    ELSE IF self.tables_is_none THEN Outcome(self, fsys, "TypeError")
    ELSE
      LET omnibus_table == self.omnibus_tables[k].name
          \* ignore any tables not in cache
          table_names == SelectSeq(self.omnibus_tables[k].tables,
                                   LAMBDA t : t \in DOMAIN self.tables)
          frames == [i \in DOMAIN table_names |-> self.tables[table_names[i]]]
          concat_axis == IF omnibus_table \in self.omnibus_tables_append_columns
                         THEN 1 ELSE 0
          df == IF concat_axis = 1 THEN concat_columns(frames) ELSE concat_rows(frames)
          dir == data_directory(self)
          path == file_path(self, omnibus_table, "csv")
      IN IF table_names = <<>> THEN Outcome(self, fsys, "ValueError")
         ELSE IF concat_axis = 1 /\ concat_columns_raises(frames)
              THEN Outcome(self, fsys, "InvalidIndexError")
         ELSE IF ~self.estimating \/ isfile(fsys, dir, path)
              THEN Outcome(self, fsys, "AssertionError")
         ELSE IF exists(fsys, dir, path) THEN Outcome(self, fsys, "IsADirectoryError")
         ELSE write_omnibus_table_from(
                  self, to_csv(fsys, dir, path, sort_index(df), TRUE), k + 1)

write_omnibus_table(self, fsys) ==
    IF Len(self.omnibus_tables) = 0 THEN Outcome(self, fsys, NoException)
    ELSE write_omnibus_table_from(self, fsys, 1)

\* EstimationManager.release: self.estimating.pop(estimator.model_name)
release(mgr, estimator) ==
    IF estimator.model_name \in DOMAIN mgr.estimating
    THEN [manager |-> [mgr EXCEPT !.estimating =
                          [m \in DOMAIN @ \ {estimator.model_name} |-> @[m]]],
          exc |-> NoException]
    ELSE [manager |-> mgr, exc |-> "KeyError"]

\* Estimator.end_estimation
end_estimation(self, fsys, mgr) ==
    LET written == write_omnibus_table(self, fsys)
        ended == [self EXCEPT !.estimating = FALSE,
                              !.tables = [t \in {} |-> <<>>],
                              !.tables_is_none = TRUE]
        released == release(mgr, ended)
    IN IF written.exc # NoException
       THEN [self |-> self, fs |-> written.fs, manager |-> mgr, exc |-> written.exc]
       ELSE [self |-> ended, fs |-> written.fs, manager |-> released.manager,
             exc |-> released.exc]

\* the text a writer puts into a settings, spec or dictionary file
Document(tag, text) == <<Row(0, tag, "text", text)>>

\* Estimator.write_dict
write_dict(self, fsys, d, dict_name) ==
    LET dir == data_directory(self)
        path == file_path(self, dict_name, "yaml")
    IN IF ~self.estimating \/ isfile(fsys, dir, path)
       THEN Outcome(self, fsys, "AssertionError")
       ELSE IF exists(fsys, dir, path) THEN Outcome(self, fsys, "IsADirectoryError")
       ELSE Outcome(self, overwrite_file(fsys, dir, path, Document(dict_name, d)),
                    NoException)

\* Estimator.write_coefficients and Estimator.write_coefficients_template
write_coefficients(self, fsys, coefficients_df, tag) ==
    IF ~self.estimating THEN Outcome(self, fsys, "AssertionError")
    ELSE write_table(self, fsys, coefficients_df, tag, FALSE)

\* Estimator.write_choosers
write_choosers(self, fsys, choosers_df) ==
    write_table(self, fsys, choosers_df, "choosers", TRUE)

\* Estimator.melt_alternatives: one row per chooser id (and expression), the
\* alternatives of a chooser turned into columns, in ascending chooser order
melt_alternatives(df) ==
    LET order == SortedIds(Range(IndexOf(df)))
    IN [k \in DOMAIN order |->
          [id |-> order[k],
           cells |-> UNION {r.cells : r \in Range(RowsWithId(df, order[k]))}]]

\* Estimator.write_alternatives
write_alternatives(self, fsys, alternatives_df) ==
    IF self.alt_id_column_name = None THEN Outcome(self, fsys, "AssertionError")
    ELSE write_table(self, fsys, melt_alternatives(alternatives_df), "alternatives", TRUE)

\* Series.to_frame(name): a frame with the one column `name`
to_frame(series, table, name) ==
    [i \in DOMAIN series |-> Row(series[i].id, table, name, series[i].value)]

\* Estimator.write_choices
write_choices(self, fsys, choices) ==
    write_table(self, fsys, to_frame(choices.data, "choices", "model_choice"),
                "choices", TRUE)

\* Estimator.write_interaction_expression_values
write_interaction_expression_values(self, fsys, df) ==
    IF self.alt_id_column_name = None THEN Outcome(self, fsys, "AssertionError")
    ELSE write_table(self, fsys, melt_alternatives(df),
                     "interaction_expression_values", TRUE)

\* Estimator.write_expression_values: the table name passed to write_table
\* is the literal 'write_expression_values'
write_expression_values(self, fsys, df) ==
    write_table(self, fsys, df, "write_expression_values", TRUE)

\* Estimator.copy_model_settings and Estimator.write_spec: shutil.copy of a
\* configuration file to file_path(tag, file_type); copying onto a directory
\* puts the file inside it
copy_config_file(self, fsys, text, tag, file_type) ==
    LET dir == data_directory(self)
        path == file_path(self, tag, file_type)
    IN IF ~self.estimating THEN Outcome(self, fsys, "AssertionError")
       ELSE IF exists(fsys, dir, path) /\ ~isfile(fsys, dir, path)
            THEN Outcome(self, fsys, NoException)
       ELSE Outcome(self, overwrite_file(fsys, dir, path, Document(tag, text)),
                    NoException)

copy_model_settings(self, fsys, settings_file_name) ==
    copy_config_file(self, fsys, settings_file_name, "model_settings", "yaml")

write_spec(self, fsys, file_name, tag) ==
    copy_config_file(self, fsys, file_name, tag, "csv")

\* Estimator.write_model_settings
write_model_settings(self, fsys, inherit_settings, settings_file_name) ==
    LET copied == copy_model_settings(self, fsys, settings_file_name)
    IN IF copied.exc # NoException \/ ~inherit_settings THEN copied
       ELSE write_dict(self, copied.fs, settings_file_name, "inherited_model_settings")

\* activitysim.core.util.reindex(series, index): the series' value at each
\* index value, NaN where the series has none
reindex_ByPosition(series, index) ==
    [i \in DOMAIN index |-> IF i \in DOMAIN series THEN series[i] ELSE NaN]

reindex(series, index) ==
    [i \in DOMAIN index |->
        IF index[i] \in DOMAIN series THEN series[index[i]] ELSE NaN]

NoReturn == [kind |-> None, data |-> <<>>]

\* get_override_choices, "choice_settings is None"
no_choice_settings_Never(self) == FALSE

no_choice_settings(self) == "override_choices" \notin DOMAIN self.model_settings

\* get_override_choices, "override_choices.override_choice.isna().any()"
isna_any_Never(override_choice) == FALSE

isna_any(override_choice) == \E i \in DOMAIN override_choice : override_choice[i] = NaN

\* get_override_choices, the frame it writes: choices.to_frame('model_choice')
\* with the reindexed survey column as 'override_choice'
override_choices_frame(choices, survey_df) ==
    LET index == [i \in DOMAIN choices.data |-> choices.data[i].id]
        override_choice == reindex(survey_df, index)
    IN [i \in DOMAIN index |->
          [id |-> index[i],
           cells |-> {<<"override_choices", "model_choice", choices.data[i].value>>,
                      <<"override_choices", "override_choice", override_choice[i]>>}]]

\* Estimator.get_override_choices: the outcome and the value returned
get_override_choices(self, fsys, choices, survey_df) ==
    LET index == [i \in DOMAIN choices.data |-> choices.data[i].id]
        override_choice == reindex(survey_df, index)
        override_choices == override_choices_frame(choices, survey_df)
        written == write_table(self, fsys, override_choices, "override_choices", TRUE)
        raise(exc) == [out |-> Outcome(self, fsys, exc), ret |-> NoReturn]
    IN IF ~self.estimating THEN raise("AssertionError")
       ELSE IF no_choice_settings(self)
            THEN [out |-> Outcome(self, fsys, NoException), ret |-> choices]
       ELSE IF choices.kind # "Series" THEN raise("RuntimeError")
       ELSE IF isna_any(override_choice) THEN raise("NameError")
       ELSE IF written.exc # NoException THEN [out |-> written, ret |-> NoReturn]
       ELSE [out |-> written,
             ret |-> [kind |-> "Series",
                      data |-> [i \in DOMAIN index |->
                                   [id |-> index[i], value |-> override_choice[i]]]]]

---------------------------------------------------------------------------
(* EstimationManager *)

\* EstimationManager.__init__
EstimationManager_init ==
    [settings_initialized |-> FALSE,
     enabled |-> None,
     models |-> {},
     model_settings |-> [m \in {} |-> <<>>],
     estimating |-> [m \in {} |-> 0]]

\* EstimationManager.initialize_settings
initialize_settings(mgr, settings) ==
    [mgr EXCEPT !.enabled = DictGet(settings, "enable", "True"),
                !.models = DictGet(settings, "models", {}),
                !.model_settings = DictGet(settings, "model_settings", [m \in {} |-> <<>>]),
                !.settings_initialized = TRUE]

\* EstimationManager.begin_estimation, "global estimation setting" and the
\* models list: whether the call goes on to estimate
is_estimated_IgnoreModels(mgr, model_name) == Truthy(mgr.enabled)

is_estimated(mgr, model_name) == Truthy(mgr.enabled) /\ model_name \in mgr.models

\* EstimationManager.begin_estimation, "can't estimate the same model
\* simultaneously": the condition the code asserts
can_begin(mgr, model_name) == model_name \in DOMAIN mgr.model_settings

\* EstimationManager.begin_estimation: ret is the index in estimators of the
\* Estimator returned, 0 for None
begin_estimation(mgr, fsys, ests, model_name, settings) ==
    LET ready == IF mgr.settings_initialized THEN mgr
                 ELSE initialize_settings(mgr, settings)
        self == Estimator_init(model_name, ready.model_settings[model_name])
        new == Len(ests) + 1
        stay(exc) == [manager |-> ready, fs |-> fsys, estimators |-> ests,
                      ret |-> 0, exc |-> exc]
    IN IF ~is_estimated(ready, model_name) THEN stay(NoException)
       ELSE IF ~can_begin(ready, model_name) THEN stay("AssertionError")
       ELSE IF model_name \notin DOMAIN ready.model_settings THEN stay("AssertionError")
       ELSE [manager |-> [ready EXCEPT !.estimating =
                             [m \in DOMAIN @ \cup {model_name} |->
                                 IF m = model_name THEN new ELSE @[m]]],
             fs |-> Estimator_init_fs(fsys, model_name),
             estimators |-> Append(ests, self),
             ret |-> new,
             exc |-> NoException]

---------------------------------------------------------------------------
(* The inputs the model draws from *)

\* begin_estimation is called for a model with estimation settings, for a
\* model listed without settings, and for a model that is not listed
ModelNames == {"auto_ownership", "cdap", "free_parking"}

OmnibusTable(name, tables) == [name |-> name, tables |-> tables]

\* per-model settings of estimation.yaml
ModelSettings ==
    { [x \in {} |-> <<>>],
      [override_choices |-> "override_choices.csv"],
      [override_choices |-> "override_choices.csv",
       omnibus_tables |->
          <<OmnibusTable("choosers_combined", <<"choices", "override_choices", "choosers">>)>>,
       omnibus_tables_append_columns |-> {"choosers_combined"}],
      [omnibus_tables |->
          <<OmnibusTable("choosers_combined", <<"choosers", "alternatives">>),
            OmnibusTable("coefficients_combined", <<"coefficients">>)>>] }

\* estimation.yaml as read by config.read_model_settings
EstimationSettingsFiles ==
    { [models |-> {"auto_ownership", "cdap"},
       model_settings |-> [m \in {"auto_ownership"} |-> ms]] : ms \in ModelSettings }
    \cup
    { [enable |-> "false",
       models |-> {"auto_ownership", "cdap"},
       model_settings |-> [m \in {"auto_ownership"} |-> ms]] : ms \in ModelSettings }

StaleData == <<HeaderRow, Row(1, "previous_run", "data", "x")>>

Directory(data) == [kind |-> "dir", data |-> data]

\* what a previous run and the user left in estimation_data_bundle/auto_ownership
LeftoverListing ==
    [n \in { <<"auto_ownership", "_", "choosers", ".", "csv">>,
             <<"auto_ownership", "_", "coefficients", ".", "csv">>,
             <<"auto_ownership", "_", "model_settings", ".", "yaml">>,
             <<"auto_ownership", "2", "_", "choices", ".", "csv">>,
             <<"auto_ownership", "_", "notes", ".", "txt">>,
             <<"survey", "_", "auto_ownership", ".", "csv">>,
             <<"auto_ownership", "_", "archive", "_", "csv">> }
        |-> IF n = <<"auto_ownership", "_", "archive", "_", "csv">>
            THEN Directory(<<>>) ELSE RegularFile(StaleData)]

EmptyListing == [n \in {} |-> RegularFile(<<>>)]

InitialBundles ==
    { [dirs |-> {}, entries |-> [m \in ModelNames |-> EmptyListing]],
      [dirs |-> {"auto_ownership"},
       entries |-> [m \in ModelNames |->
                       IF m = "auto_ownership" THEN LeftoverListing ELSE EmptyListing]] }

\* the frames handed to write_choosers, write_alternatives, write_coefficients
Frames(table) == {<<Row(i, table, "data", "x")>> : i \in Ids}

Alts == {"a1", "a2"}

Choice(id, value) == [id |-> id, value |-> value]

\* the modeled choices handed to write_choices and get_override_choices
Choices ==
    { [kind |-> k, data |-> d] :
        k \in {"Series", "DataFrame"},
        d \in {<<Choice(1, "a1")>>, <<Choice(2, "a2"), Choice(1, "a1")>>} }

\* the survey column read by get_override_choices, by chooser id
Survey(ids, values) == [i \in ids |-> values[i]]

Surveys ==
    { Survey({1}, <<"a2">>),
      Survey({1, 2}, <<"a2", "a1">>),
      Survey({1, 2}, <<"a2", NaN>>) }

NoSurvey == [i \in {} |-> NaN]

---------------------------------------------------------------------------
(* State machine *)

Call(op, self, name, exc) ==
    [op |-> op, self |-> self, name |-> name, exc |-> exc,
     choices |-> NoReturn, survey |-> NoSurvey, ret |-> NoReturn]

NoHistory == [frames |-> [t \in {} |-> <<>>]]

\* the history of self extended by a frame accepted for table
Logged(h, table, df) ==
    [h EXCEPT !.frames = [t \in DOMAIN @ \cup {table} |->
                             IF t # table THEN @[t]
                             ELSE IF table \in DOMAIN @ THEN @[table] \o df ELSE df]]

\* no location choice step was run by this process
LocationAtRest ==
    /\ table_registry = [n \in {} |-> [none |-> TRUE, columns |-> {}, rows |-> <<>>]]
    /\ locutor = FALSE
    /\ done = <<>>
    /\ trace_label = None
    /\ step_settings = [k \in {} |-> None]
    /\ spc = [use_shadow_pricing |-> FALSE, max_iterations |-> 1,
              modeled_size |-> <<>>, shadow_prices |-> <<>>]
    /\ pc = "idle"
    /\ iteration = 0
    /\ choices_df = [none |-> TRUE, columns |-> {}, rows |-> <<>>]
    /\ save_sample_df = [none |-> TRUE, columns |-> {}, rows |-> <<>>]
    /\ persons_df = [none |-> TRUE, columns |-> {}, rows |-> <<>>]
    /\ calls = <<>>
    /\ raised = NoException

\* the pipeline was never opened
PipelineAtRest ==
    /\ pipeline_store = [checkpoints |-> <<>>, frames |-> [k \in {} |-> <<>>]]
    /\ pipeline_state = [is_open |-> FALSE, checkpoints |-> <<>>,
                         tables |-> [t \in {} |-> <<>>]]
    /\ pipe_last = [op |-> "start", name |-> "", exc |-> <<>>]
    /\ resumed = [resume_after |-> None,
                  store |-> [checkpoints |-> <<>>, frames |-> [k \in {} |-> <<>>]]]
    /\ nruns = 0

\* the survey was not read
InferAtRest ==
    /\ survey_persons = <<>>
    /\ survey_tours = <<>>
    /\ inferred = <<>>

\* the subsystems other than estimation, location choice and the pipeline
\* no spec table was read
NoSpec == [none |-> TRUE, has_label |-> FALSE, rows |-> <<>>]

\* no spec file was read
ReadAtRest ==
    /\ spec_file = [has_label |-> FALSE, rows |-> <<>>]
    /\ model_spec = NoSpec

\* the tour mode choice step was not run
ModeAtRest ==
    /\ mode_spec_file = <<>>
    /\ mode_spec = <<>>
    /\ tours_table = <<>>
    /\ resolved = <<>>
    /\ step_log = <<>>
    /\ step_exc = NoException
    /\ mode_calls = 0

\* simple_simulate did not return yet
NoResult == [done |-> FALSE, exc |-> NoException, choices |-> <<>>]

\* simple_simulate was not called
SimAtRest ==
    /\ sim_choosers = <<>>
    /\ sim_spec = [has_label |-> FALSE, rows |-> <<>>]
    /\ sim_chunk_size = 0
    /\ sim_estimator = FALSE
    /\ base_seed = 0
    /\ rng_offsets = <<>>
    /\ expression_values_written = <<>>
    /\ log_lines = <<>>
    /\ sim_result = NoResult

CoreAtRest == InferAtRest /\ ReadAtRest /\ ModeAtRest /\ SimAtRest

Init ==
    /\ configs \in EstimationSettingsFiles
    /\ manager = EstimationManager_init
    /\ estimators = <<>>
    /\ fs \in InitialBundles
    /\ last = Call("start", 0, "", NoException)
    /\ hist = <<>>
    /\ ncalls = 0
    /\ LocationAtRest
    /\ PipelineAtRest
    /\ CoreAtRest

BeginEstimation(model_name) ==
    /\ Len(estimators) < MaxEstimators
    /\ LET r == begin_estimation(manager, fs, estimators, model_name, configs)
       IN /\ manager' = r.manager
          /\ fs' = r.fs
          /\ estimators' = r.estimators
          /\ hist' = IF r.ret = 0 THEN hist ELSE Append(hist, NoHistory)
          /\ last' = Call("begin_estimation", r.ret, model_name, r.exc)
    /\ UNCHANGED <<configs, ncalls>>
    /\ UNCHANGED NotEstimation

EndEstimation(e) ==
    /\ LET r == end_estimation(estimators[e], fs, manager)
       IN /\ manager' = r.manager
          /\ fs' = r.fs
          /\ estimators' = [estimators EXCEPT ![e] = r.self]
          /\ last' = Call("end_estimation", e, estimators[e].model_name, r.exc)
    /\ UNCHANGED <<configs, hist, ncalls>>
    /\ UNCHANGED NotEstimation

SetAltId(e) ==
    /\ ncalls < MaxCalls
    /\ ncalls' = ncalls + 1
    /\ estimators' = [estimators EXCEPT ![e].alt_id_column_name = "alt_dest"]
    /\ last' = Call("set_alt_id", e, "alt_dest", NoException)
    /\ UNCHANGED <<configs, manager, fs, hist>>
    /\ UNCHANGED NotEstimation

\* the state after a writer of a table returned or raised `out`
Written(e, op, table, df, out) ==
    /\ ncalls < MaxCalls
    /\ ncalls' = ncalls + 1
    /\ estimators' = [estimators EXCEPT ![e] = out.self]
    /\ fs' = out.fs
    /\ hist' = IF out.exc = NoException
               THEN [hist EXCEPT ![e] = Logged(@, table, df)] ELSE hist
    /\ last' = Call(op, e, table, out.exc)
    /\ UNCHANGED <<configs, manager>>
    /\ UNCHANGED NotEstimation

WriteChoosers(e) ==
    \E df \in Frames("choosers") :
        Written(e, "write_choosers", "choosers", df,
                write_choosers(estimators[e], fs, df))

WriteAlternatives(e) ==
    \E df \in Frames("alternatives") :
        Written(e, "write_alternatives", "alternatives", melt_alternatives(df),
                write_alternatives(estimators[e], fs, df))

WriteChoices(e) ==
    \E choices \in Choices :
        Written(e, "write_choices", "choices",
                to_frame(choices.data, "choices", "model_choice"),
                write_choices(estimators[e], fs, choices))

WriteCoefficients(e) ==
    \E df \in Frames("coefficients") :
        LET out == write_coefficients(estimators[e], fs, df, "coefficients")
        IN /\ Written(e, "write_coefficients", "coefficients", df, out)

WriteCoefficientsTemplate(e) ==
    \E df \in Frames("coefficients_template") :
        LET out == write_coefficients(estimators[e], fs, df, "coefficients_template")
        IN /\ Written(e, "write_coefficients_template", "coefficients_template", df, out)

WriteInteractionExpressionValues(e) ==
    \E df \in Frames("interaction_expression_values") :
        Written(e, "write_interaction_expression_values",
                "interaction_expression_values", melt_alternatives(df),
                write_interaction_expression_values(estimators[e], fs, df))

WriteExpressionValues(e) ==
    \E df \in Frames("expression_values") :
        Written(e, "write_expression_values", "write_expression_values", df,
                write_expression_values(estimators[e], fs, df))

\* the state after a writer of a settings, spec or dictionary file
Copied(e, op, tag, out) ==
    /\ ncalls < MaxCalls
    /\ ncalls' = ncalls + 1
    /\ estimators' = [estimators EXCEPT ![e] = out.self]
    /\ fs' = out.fs
    /\ last' = Call(op, e, tag, out.exc)
    /\ UNCHANGED <<configs, manager, hist>>
    /\ UNCHANGED NotEstimation

WriteDict(e) ==
    \E d \in {"a", "b"} :
        Copied(e, "write_dict", "nest_spec", write_dict(estimators[e], fs, d, "nest_spec"))

WriteModelSettings(e) ==
    \E inherit_settings \in BOOLEAN, settings_file_name \in {"a", "b"} :
        Copied(e, "write_model_settings", "model_settings",
               write_model_settings(estimators[e], fs, inherit_settings, settings_file_name))

WriteSpec(e) ==
    \E file_name \in {"a", "b"} :
        Copied(e, "write_spec", "SPEC", write_spec(estimators[e], fs, file_name, "SPEC"))

GetOverrideChoices(e) ==
    \E choices \in Choices, survey_df \in Surveys :
        LET r == get_override_choices(estimators[e], fs, choices, survey_df)
        IN /\ ncalls < MaxCalls
           /\ ncalls' = ncalls + 1
           /\ estimators' = [estimators EXCEPT ![e] = r.out.self]
           /\ fs' = r.out.fs
           /\ hist' = IF r.out.exc = NoException /\ ~no_choice_settings(estimators[e])
                       THEN [hist EXCEPT ![e] =
                               Logged(@, "override_choices",
                                      override_choices_frame(choices, survey_df))]
                       ELSE hist
           /\ last' = [Call("get_override_choices", e, "override_choices", r.out.exc)
                          EXCEPT !.choices = choices, !.survey = survey_df, !.ret = r.ret]
           /\ UNCHANGED <<configs, manager>>
           /\ UNCHANGED NotEstimation

Next ==
    \/ \E model_name \in ModelNames : BeginEstimation(model_name)
    \/ \E e \in DOMAIN estimators : EndEstimation(e)
    \/ \E e \in DOMAIN estimators : SetAltId(e)
    \/ \E e \in DOMAIN estimators : WriteChoosers(e)
    \/ \E e \in DOMAIN estimators : WriteAlternatives(e)
    \/ \E e \in DOMAIN estimators : WriteChoices(e)
    \/ \E e \in DOMAIN estimators : WriteCoefficients(e)
    \/ \E e \in DOMAIN estimators : WriteCoefficientsTemplate(e)
    \/ \E e \in DOMAIN estimators : WriteInteractionExpressionValues(e)
    \/ \E e \in DOMAIN estimators : WriteExpressionValues(e)
    \/ \E e \in DOMAIN estimators : WriteDict(e)
    \/ \E e \in DOMAIN estimators : WriteModelSettings(e)
    \/ \E e \in DOMAIN estimators : WriteSpec(e)
    \/ \E e \in DOMAIN estimators : GetOverrideChoices(e)

Spec == Init /\ [][Next]_vars

---------------------------------------------------------------------------
(* Properties of the estimation data-bundle writer *)

Live(e) == estimators[e].estimating

Registered(e) ==
    /\ estimators[e].model_name \in DOMAIN manager.estimating
    /\ manager.estimating[estimators[e].model_name] = e

BundlePath(model_name, table_name, file_type) ==
    <<model_name, "_", table_name, ".", file_type>>

Count(seq, x) == Cardinality({i \in DOMAIN seq : seq[i] = x})

\* C1: while an Estimator is registered for a model and still estimating, a
\* second begin_estimation for that model fails, constructs no Estimator and
\* deletes no file; at most one live Estimator exists per model name.
C1_NoSecondEstimator ==
    /\ \A e \in DOMAIN estimators :
          Registered(e) /\ Live(e) =>
             LET r == begin_estimation(manager, fs, estimators,
                                       estimators[e].model_name, configs)
             IN r.exc # NoException /\ r.estimators = estimators /\ r.fs = fs
    /\ \A e1, e2 \in DOMAIN estimators :
          /\ estimators[e1].model_name = estimators[e2].model_name
          /\ Live(e1) /\ Live(e2)
          => e1 = e2

\* C2: begin_estimation returns a falsy value, registers nothing and touches
\* no file when estimation.yaml disables estimation or does not list the model.
C2_NotEstimatedIsInert ==
    \A model_name \in ModelNames :
       LET r == begin_estimation(manager, fs, estimators, model_name, configs)
           disabled == "enable" \in DOMAIN configs /\ configs.enable = "false"
           listed == "models" \in DOMAIN configs /\ model_name \in configs.models
       IN disabled \/ ~listed =>
             /\ r.ret = 0 /\ r.exc = NoException
             /\ r.manager.estimating = manager.estimating
             /\ r.estimators = estimators
             /\ r.fs = fs

C2_Witness ==
    /\ last.op = "begin_estimation" /\ last.name = "free_parking"
    /\ last.self = 0 /\ last.exc = NoException
    /\ \E e \in DOMAIN estimators : Registered(e) /\ Live(e)
    /\ DOMAIN fs.entries["auto_ownership"] # {}

\* C3: constructing an Estimator deletes exactly the regular files of the
\* model's output directory whose name starts with the model name and ends in
\* csv or yaml, writes nothing, and leaves every other entry unchanged.
C3_DeletesExactlyStaleFiles ==
    \A model_name \in ModelNames :
       LET r == begin_estimation(manager, fs, estimators, model_name, configs)
           before == fs.entries[model_name]
           after == r.fs.entries[model_name]
           stale == {n \in DOMAIN before :
                        /\ before[n].kind = "file"
                        /\ n[1] = model_name
                        /\ n[Len(n)] \in {"csv", "yaml"}}
       IN r.ret # 0 =>
             /\ DOMAIN after = DOMAIN before \ stale
             /\ \A n \in DOMAIN after : after[n] = before[n]
             /\ \A other \in ModelNames \ {model_name} :
                   r.fs.entries[other] = fs.entries[other]

C3_Witness ==
    /\ last.op = "begin_estimation" /\ last.self # 0
    /\ LET listing == fs.entries[last.name]
       IN /\ BundlePath(last.name, "notes", "txt") \in DOMAIN listing
          /\ <<"survey", "_", last.name, ".", "csv">> \in DOMAIN listing
          /\ <<last.name, "_", "archive", "_", "csv">> \in DOMAIN listing
          /\ BundlePath(last.name, "choosers", "csv") \notin DOMAIN listing
          /\ <<last.name, "2", "_", "choices", ".", "csv">> \notin DOMAIN listing

\* C4: end_estimation on a registered Estimator leaves its model unregistered,
\* whatever omnibus_tables says and whatever was written.
C4_EndEstimationReleases ==
    \A e \in DOMAIN estimators :
       Registered(e) /\ Live(e) =>
          estimators[e].model_name \notin
             DOMAIN end_estimation(estimators[e], fs, manager).manager.estimating

\* C5: a second write_coefficients / write_coefficients_template with the same
\* tag on the same Estimator raises and leaves the written artifact unchanged.
C5_SecondWriteCoefficientsRaises ==
    \A e \in DOMAIN estimators :
       \A tag \in {"coefficients", "coefficients_template"} :
          \A df \in Frames(tag) :
             LET out == write_coefficients(estimators[e], fs, df, tag)
             IN tag \in DOMAIN hist[e].frames =>
                   /\ out.exc # NoException
                   /\ out.fs = fs
                   /\ out.self = estimators[e]

\* what a call did to one entry of a bundle directory that was a file before
Untouched(fsys, dir, path) ==
    isfile(fsys, dir, path) /\ fsys.entries[dir][path] = fs.entries[dir][path]

\* C6: every write of a non-appendable artifact whose target file already
\* exists raises and leaves the file unchanged.
C6_NoSilentOverwrite ==
    \A e \in DOMAIN estimators :
       LET self == estimators[e]
           dir == self.model_name
           guarded(out, tag, file_type) ==
               isfile(fs, dir, BundlePath(dir, tag, file_type)) =>
                  /\ out.exc # NoException
                  /\ Untouched(out.fs, dir, BundlePath(dir, tag, file_type))
       IN /\ \A file_name \in {"a", "b"} :
                guarded(write_spec(self, fs, file_name, "SPEC"), "SPEC", "csv")
          /\ \A file_name \in {"a", "b"}, inherit_settings \in BOOLEAN :
                guarded(write_model_settings(self, fs, inherit_settings, file_name),
                        "model_settings", "yaml")
          /\ \A d \in {"a", "b"} :
                guarded(write_dict(self, fs, d, "nest_spec"), "nest_spec", "yaml")
          /\ \A tag \in {"coefficients", "coefficients_template"} :
                tag \notin self.tables_to_cache =>
                   \A df \in Frames(tag) :
                      guarded(write_coefficients(self, fs, df, tag), tag, "csv")
          /\ \A k \in DOMAIN self.omnibus_tables :
                guarded(end_estimation(self, fs, manager),
                        self.omnibus_tables[k].name, "csv")

\* the tables of self that are written into its k-th omnibus table
Constituents(self, k) == Range(self.omnibus_tables[k].tables)

\* C7 (writers): write_choosers, write_choices and write_alternatives of a
\* table listed under omnibus_tables leave the bundle directory as it is.
C7_CachedWritesTouchNoFile ==
    \A e \in DOMAIN estimators :
       LET self == estimators[e]
       IN /\ "choosers" \in self.tables_to_cache =>
                \A df \in Frames("choosers") : write_choosers(self, fs, df).fs = fs
          /\ "choices" \in self.tables_to_cache =>
                \A choices \in Choices : write_choices(self, fs, choices).fs = fs
          /\ "alternatives" \in self.tables_to_cache =>
                \A df \in Frames("alternatives") : write_alternatives(self, fs, df).fs = fs

\* C7 (cache): the cache of a live Estimator holds, per omnibus constituent,
\* the rows of every write so far, in write order.
C7_CacheAccumulatesInOrder ==
    \A e \in DOMAIN estimators :
       Live(e) =>
          \A t \in estimators[e].tables_to_cache :
             /\ t \in DOMAIN hist[e].frames <=> t \in DOMAIN estimators[e].tables
             /\ t \in DOMAIN hist[e].frames =>
                   estimators[e].tables[t] = hist[e].frames[t]

\* C7 (flush): an omnibus CSV that end_estimation writes has one header row
\* and holds every row accumulated for its constituent tables: stacked when
\* row-concatenated, joined on the index when column-concatenated.
C7_OmnibusHoldsAllRows ==
    \A e \in DOMAIN estimators :
       LET self == estimators[e]
           dir == self.model_name
           r == end_estimation(self, fs, manager)
       IN \A k \in DOMAIN self.omnibus_tables :
             LET path == BundlePath(dir, self.omnibus_tables[k].name, "csv")
                 data == r.fs.entries[dir][path].data
                 rows == Tail(data)
                 logged == {t \in Constituents(self, k) : t \in DOMAIN hist[e].frames}
             IN isfile(r.fs, dir, path) /\ ~isfile(fs, dir, path) =>
                   /\ data[1] = HeaderRow /\ Count(data, HeaderRow) = 1
                   /\ \A i, j \in DOMAIN rows : i <= j => rows[i].id <= rows[j].id
                   /\ IF self.omnibus_tables[k].name \in self.omnibus_tables_append_columns
                      THEN /\ \A t \in logged : \A x \in Range(hist[e].frames[t]) :
                                 \E y \in Range(rows) : y.id = x.id /\ x.cells \subseteq y.cells
                           /\ \A y \in Range(rows) : \A c \in y.cells :
                                 \E t \in logged : \E x \in Range(hist[e].frames[t]) :
                                    x.id = y.id /\ c \in x.cells
                      ELSE \A x \in Range(rows) \cup
                                    UNION {Range(hist[e].frames[t]) : t \in logged} :
                              Count(rows, x) =
                                 Cardinality({<<t, i>> \in logged \X (1..MaxCalls) :
                                                 /\ i \in DOMAIN hist[e].frames[t]
                                                 /\ hist[e].frames[t][i] = x})

\* C7: rows written to an omnibus constituent stay out of the bundle
\* directory until end_estimation writes them, all of them, into the one
\* combined CSV.
C7_OmnibusTablesAreDeferred ==
    /\ C7_CachedWritesTouchNoFile
    /\ C7_CacheAccumulatesInOrder
    /\ C7_OmnibusHoldsAllRows

C7_Witness ==
    /\ last.op = "end_estimation"
    /\ \E k \in DOMAIN estimators[last.self].omnibus_tables :
          LET path == BundlePath(last.name, estimators[last.self].omnibus_tables[k].name, "csv")
          IN /\ isfile(fs, last.name, path)
             /\ Len(fs.entries[last.name][path].data) >= 3
             /\ BundlePath(last.name, "choosers", "csv") \notin DOMAIN fs.entries[last.name]

\* whether the survey column has a value for every chooser id of choices
SurveyComplete(choices, survey_df) ==
    \A i \in DOMAIN choices.data :
       /\ choices.data[i].id \in DOMAIN survey_df
       /\ survey_df[choices.data[i].id] # NaN

HasOverrideSetting(e) == "override_choices" \in DOMAIN estimators[e].model_settings

\* C8: with an override_choices setting, get_override_choices raises, returns
\* nothing and writes no override_choices table (file or cache) when a chooser
\* id of choices has no survey value.
C8_MissingSurveyValueIsFatal ==
    \A e \in DOMAIN estimators : \A choices \in Choices : \A survey_df \in Surveys :
       LET r == get_override_choices(estimators[e], fs, choices, survey_df)
       IN HasOverrideSetting(e) /\ ~SurveyComplete(choices, survey_df) =>
             /\ r.out.exc # NoException
             /\ r.ret = NoReturn
             /\ r.out.fs = fs
             /\ r.out.self = estimators[e]

C8_Witness ==
    /\ last.op = "get_override_choices" /\ last.exc = "NameError"
    /\ HasOverrideSetting(last.self)
    /\ ~SurveyComplete(last.choices, last.survey)
    /\ last.ret = NoReturn

\* the survey value of each chooser id of choices, in the order of choices
SurveyValues(choices, survey_df) ==
    [i \in DOMAIN choices.data |->
        Choice(choices.data[i].id, survey_df[choices.data[i].id])]

\* C9 (as claimed): with an override_choices setting and a complete survey, a
\* live Estimator's get_override_choices returns the survey value of every
\* chooser id, for a Series and for a DataFrame alike.
C9_ReturnsSurveyValuesForAnyKind ==
    \A e \in DOMAIN estimators : \A choices \in Choices : \A survey_df \in Surveys :
       LET r == get_override_choices(estimators[e], fs, choices, survey_df)
       IN Live(e) /\ HasOverrideSetting(e) /\ SurveyComplete(choices, survey_df) =>
             /\ r.out.exc = NoException
             /\ r.ret.data = SurveyValues(choices, survey_df)

\* C9 (amended): it does so for a Series; for a DataFrame it raises
\* RuntimeError, returns nothing and writes nothing.
C9_ReturnsSurveyValuesForSeries ==
    \A e \in DOMAIN estimators : \A choices \in Choices : \A survey_df \in Surveys :
       LET r == get_override_choices(estimators[e], fs, choices, survey_df)
       IN Live(e) /\ HasOverrideSetting(e) /\ SurveyComplete(choices, survey_df) =>
             IF choices.kind = "Series"
             THEN /\ r.out.exc = NoException
                  /\ r.ret.kind = "Series"
                  /\ r.ret.data = SurveyValues(choices, survey_df)
             ELSE /\ r.out.exc = "RuntimeError"
                  /\ r.ret = NoReturn
                  /\ r.out.fs = fs
                  /\ r.out.self = estimators[e]

C9_Witness ==
    /\ last.op = "get_override_choices" /\ last.exc = NoException
    /\ HasOverrideSetting(last.self)
    /\ last.choices.kind = "Series" /\ Len(last.choices.data) = 2
    /\ last.ret.data = SurveyValues(last.choices, last.survey)
    /\ \E i \in DOMAIN last.ret.data : last.ret.data[i].value # last.choices.data[i].value

\* C10: without an override_choices setting, a live Estimator's
\* get_override_choices does not raise, returns the modeled choices as they
\* are whatever the survey holds, and changes neither the bundle nor the cache.
C10_NoSettingNoOverride ==
    \A e \in DOMAIN estimators : \A choices \in Choices : \A survey_df \in Surveys :
       LET r == get_override_choices(estimators[e], fs, choices, survey_df)
       IN Live(e) /\ ~HasOverrideSetting(e) =>
             /\ r.out.exc = NoException
             /\ r.ret = choices
             /\ r.out.fs = fs
             /\ r.out.self = estimators[e]

C10_Witness ==
    /\ last.op = "get_override_choices" /\ last.exc = NoException
    /\ ~HasOverrideSetting(last.self)
    /\ last.ret = last.choices
    /\ last.choices.kind = "DataFrame"
    /\ ~SurveyComplete(last.choices, last.survey)


\* the table name under which the specification documents a writer's output
DocumentedTable(op) ==
    CASE op = "write_choosers" -> "choosers"
      [] op = "write_alternatives" -> "alternatives"
      [] op = "write_choices" -> "choices"
      [] op = "write_interaction_expression_values" -> "interaction_expression_values"
      [] op = "write_expression_values" -> "expression_values"

\* a successful, uncached write of `out` left its rows at the end of the
\* file <model>_<table>.csv of the model's bundle directory
LandsIn(self, out, table, df) ==
    (out.exc = NoException /\ table \notin DOMAIN out.self.tables)
        => /\ isfile(out.fs, self.model_name, BundlePath(self.model_name, table, "csv"))
           /\ LET data == out.fs.entries[self.model_name]
                                [BundlePath(self.model_name, table, "csv")].data
              IN /\ Len(data) >= Len(df)
                 /\ SubSeq(data, Len(data) - Len(df) + 1, Len(data)) = df

\* C11: every table an Estimator writes lands in <model>_<table>.csv inside
\* the model's bundle directory, <table> being the documented table name; in
\* particular write_expression_values writes <model>_expression_values.csv and
\* write_interaction_expression_values <model>_interaction_expression_values.csv.
C11_TablesLandInDocumentedFiles ==
    \A e \in DOMAIN estimators :
        LET self == estimators[e]
        IN /\ \A df \in Frames("choosers") :
                 LandsIn(self, write_choosers(self, fs, df),
                         DocumentedTable("write_choosers"), df)
           /\ \A df \in Frames("alternatives") :
                 LandsIn(self, write_alternatives(self, fs, df),
                         DocumentedTable("write_alternatives"), melt_alternatives(df))
           /\ \A choices \in Choices :
                 LandsIn(self, write_choices(self, fs, choices),
                         DocumentedTable("write_choices"),
                         to_frame(choices.data, "choices", "model_choice"))
           /\ \A df \in Frames("interaction_expression_values") :
                 LandsIn(self, write_interaction_expression_values(self, fs, df),
                         DocumentedTable("write_interaction_expression_values"),
                         melt_alternatives(df))
           /\ \A df \in Frames("expression_values") :
                 LandsIn(self, write_expression_values(self, fs, df),
                         DocumentedTable("write_expression_values"), df)


\* the outcomes of every artifact-writing call on self, over all arguments
WriterOutcomes(self, fsys) ==
    {write_choosers(self, fsys, df) : df \in Frames("choosers")}
    \cup {write_alternatives(self, fsys, df) : df \in Frames("alternatives")}
    \cup {write_choices(self, fsys, choices) : choices \in Choices}
    \cup {write_coefficients(self, fsys, df, tag) :
             df \in Frames("coefficients"), tag \in {"coefficients", "coefficients_template"}}
    \cup {write_interaction_expression_values(self, fsys, df) :
             df \in Frames("interaction_expression_values")}
    \cup {write_expression_values(self, fsys, df) : df \in Frames("expression_values")}
    \cup {write_dict(self, fsys, d, "nest_spec") : d \in {"a", "b"}}
    \cup {write_spec(self, fsys, file_name, "SPEC") : file_name \in {"a", "b"}}
    \cup {write_model_settings(self, fsys, inherit_settings, file_name) :
             inherit_settings \in BOOLEAN, file_name \in {"a", "b"}}
    \cup {get_override_choices(self, fsys, choices, survey_df).out :
             choices \in Choices, survey_df \in Surveys}

\* every artifact-writing call on the Estimator e raises and leaves the
\* bundle as it is
WritersFail(e) ==
    \A out \in WriterOutcomes(estimators[e], fs) :
        out.exc # NoException /\ out.fs = fs

\* C28: once end_estimation() has been called on an Estimator, every later
\* artifact-writing call on it (the write_table-based writers, write_dict,
\* write_spec, write_model_settings, get_override_choices) fails and creates
\* or modifies no file.
C28_NoWriteAfterEnd ==
    \A e \in DOMAIN estimators :
        (~Live(e) \/ (last.op = "end_estimation" /\ last.self = e)) => WritersFail(e)

\* the tables written with append=True
AppendTables ==
    {"choosers", "alternatives", "choices", "interaction_expression_values",
     "write_expression_values", "override_choices"}

\* C29: for a table that is not an omnibus constituent, after any sequence of
\* append writes by one Estimator the table's CSV is one header row followed
\* by the rows of all the writes in call order, with no row of a previous run.
C29_AppendedCsvHoldsAllWrites ==
    \A e \in {x \in DOMAIN estimators : Live(x)} :
        \A t \in (DOMAIN hist[e].frames \cap AppendTables) \ estimators[e].tables_to_cache :
            LET dir == estimators[e].model_name
                path == BundlePath(dir, t, "csv")
            IN /\ isfile(fs, dir, path)
               /\ fs.entries[dir][path].data = <<HeaderRow>> \o hist[e].frames[t]


---------------------------------------------------------------------------
(* Location choice (activitysim/abm/models/location_choice.py)             *)
(*                                                                         *)
(* A registry table is a frame: its column names and a sequence of rows,   *)
(* each an index value and a record of column values.  A Series is a       *)
(* sequence of entries (id, value).  Floats are strings, NaN among them.   *)

MaxIterations == 3

Frame(columns, rows) == [none |-> FALSE, columns |-> columns, rows |-> rows]

\* the Python None where a frame is expected
NoFrame == [none |-> TRUE, columns |-> {}, rows |-> <<>>]

Record(id, columns) == [id |-> id, columns |-> columns]

\* df[name]
Column(df, name) ==
    [i \in DOMAIN df.rows |-> [id |-> df.rows[i].id, value |-> df.rows[i].columns[name]]]

\* df.index
FrameIndex(df) == [i \in DOMAIN df.rows |-> df.rows[i].id]

\* Series.reindex(index) raises ValueError on a series with duplicate labels
reindex_raises(series) ==
    \E i, j \in DOMAIN series : i # j /\ series[i].id = series[j].id

\* Series.reindex(index): the series' value at each label of index, missing
\* (na) where the series has no such label
Series_reindex_ByPosition(series, index) ==
    [i \in DOMAIN index |->
        IF i \in DOMAIN series
        THEN [id |-> index[i], value |-> series[i].value, na |-> FALSE]
        ELSE [id |-> index[i], value |-> NaN, na |-> TRUE]]

Series_reindex(series, index) ==
    [i \in DOMAIN index |->
        IF \E k \in DOMAIN series : series[k].id = index[i]
        THEN [id |-> index[i],
              value |-> series[CHOOSE k \in DOMAIN series : series[k].id = index[i]].value,
              na |-> FALSE]
        ELSE [id |-> index[i], value |-> NaN, na |-> TRUE]]

\* Series.fillna(value)
fillna(series, value) ==
    [i \in DOMAIN series |->
        IF series[i].na THEN [series[i] EXCEPT !.value = value, !.na = FALSE]
        ELSE series[i]]

\* df[name] = series, the series carrying df's own index
SetColumn(df, name, series) ==
    Frame(df.columns \cup {name},
          [i \in DOMAIN df.rows |->
              Record(df.rows[i].id,
                     [c \in DOMAIN df.rows[i].columns \cup {name} |->
                         IF c = name THEN series[i].value ELSE df.rows[i].columns[c]])])

\* NO_DEST_TAZ
NO_DEST_TAZ == -1

---------------------------------------------------------------------------
(* The table registry (inject / pipeline) *)

is_table(registry, table_name) == table_name \in DOMAIN registry

\* inject.add_table, pipeline.replace_table: the name is bound to df
add_table(registry, table_name, df) ==
    [n \in DOMAIN registry \cup {table_name} |->
        IF n = table_name THEN df ELSE registry[n]]

replace_table(registry, table_name, df) == add_table(registry, table_name, df)

\* pipeline.extend_table: df's rows are appended to the table, or added as a
\* new table
extend_table(registry, table_name, df) ==
    IF is_table(registry, table_name)
    THEN add_table(registry, table_name,
                   Frame(registry[table_name].columns \cup df.columns,
                         registry[table_name].rows \o df.rows))
    ELSE add_table(registry, table_name, df)

\* expressions.assign_columns(df, model_settings): the annotation column
assign_columns(df, column) ==
    SetColumn(df, column, [i \in DOMAIN df.rows |-> [id |-> df.rows[i].id, value |-> TRUE]])

---------------------------------------------------------------------------
(* The shadow price calculator (activitysim/abm/tables/shadow_pricing.py) *)

\* load_shadow_price_calculator(model_settings): no choices set, the shadow
\* prices unmodified
ShadowPriceCalculator(use_shadow_pricing, max_iterations) ==
    [use_shadow_pricing |-> use_shadow_pricing,
     max_iterations |-> max_iterations,
     modeled_size |-> <<>>,
     shadow_prices |-> <<>>]

\* spc.set_choices: the modeled distribution is that of the given choices
set_choices(calc, choices) == [calc EXCEPT !.modeled_size = choices]

\* spc.update_shadow_prices: the prices are adjusted by the gap between the
\* modeled distribution and the target
update_shadow_prices(calc) ==
    [calc EXCEPT !.shadow_prices = Append(@, calc.modeled_size)]

\* a call made by iterate_location_choice or run_location_choice
Event(op, iter, name, choices, prices, result) ==
    [op |-> op, iteration |-> iter, name |-> name, choices |-> choices,
     prices |-> prices, result |-> result]

\* spc.dest_size_terms(segment_name): the size terms under the current prices
dest_size_terms(calc, iter, segment_name) ==
    Event("dest_size_terms", iter, segment_name, <<>>, calc.shadow_prices, FALSE)

---------------------------------------------------------------------------
(* run_location_choice *)

\* the random draws of one run of the choice model
Draws == {10, 20}

\* the zones sampled for a chooser by run_location_sample, one row each
run_location_sample(choosers) ==
    Concat([i \in DOMAIN choosers |->
              << Record(choosers[i].id, [alt_dest |-> 10 + choosers[i].id]),
                 Record(choosers[i].id, [alt_dest |-> 20 + choosers[i].id]) >>])

\* the logsum of the choice made under a draw
Logsum(draw) == IF draw = 10 THEN "1.5" ELSE "2.5"

\* run_location_simulate: one row per chooser, the zone chosen from the
\* chooser's sample and (if wanted) the logsum
run_location_simulate(choosers, want_logsums, draw) ==
    [i \in DOMAIN choosers |->
        Record(choosers[i].id,
               IF want_logsums
               THEN [choice |-> draw + choosers[i].id, logsum |-> Logsum(draw)]
               ELSE [choice |-> draw + choosers[i].id])]

\* choosers = persons_merged_df[persons_merged_df[chooser_segment_column] == segment_id]
segment_choosers(persons_merged_df, chooser_segment_column, segment_id) ==
    SelectSeq(persons_merged_df.rows,
              LAMBDA r : r.columns[chooser_segment_column] = segment_id)

\* run_location_choice: choices_df, save_sample_df and the dest_size_terms
\* calls it made, for the segments of SEGMENT_IDS in turn
run_location_choice(persons_merged_df, calc, want_logsums, want_sample_table, settings, iter, draw) ==
    LET segment_ids == settings["SEGMENT_IDS"]
        choosers(k) == segment_choosers(persons_merged_df,
                                        settings["CHOOSER_SEGMENT_COLUMN_NAME"],
                                        segment_ids[k][2])
        skipped(k) == Len(choosers(k)) = 0
        choices_list == [k \in DOMAIN segment_ids |->
                            IF skipped(k) THEN <<>>
                            ELSE run_location_simulate(choosers(k), want_logsums, draw)]
        sample_list == [k \in DOMAIN segment_ids |->
                           IF skipped(k) \/ ~want_sample_table THEN <<>>
                           ELSE run_location_sample(choosers(k))]
        no_choices == \A k \in DOMAIN segment_ids : skipped(k)
    IN [choices_df |->
            IF no_choices THEN Frame({"choice", "logsum"}, <<>>)
            ELSE Frame(IF want_logsums THEN {"choice", "logsum"} ELSE {"choice"},
                       Concat(choices_list)),
        save_sample_df |->
            IF no_choices \/ ~want_sample_table THEN NoFrame
            ELSE Frame({"alt_dest"}, Concat(sample_list)),
        calls |-> Concat([k \in DOMAIN segment_ids |->
                            IF skipped(k) THEN <<>>
                            ELSE <<dest_size_terms(calc, iter, segment_ids[k][1])>>])]

\* persons_merged.to_frame(): the persons table with its household and
\* land use columns merged in
persons_merged(registry) == registry["persons"]

\* persons_merged_df[persons_merged[chooser_filter_column]]
filter_choosers(df, chooser_filter_column) ==
    Frame(df.columns, SelectSeq(df.rows, LAMBDA r : r.columns[chooser_filter_column]))

---------------------------------------------------------------------------
(* iterate_location_choice, after the loop *)

StepResult(registry, df, error, events) ==
    [tables |-> registry, persons_df |-> df, exc |-> error, calls |-> events]

\* the "shadow price table" block: the tables the locutor adds, in order
shadow_tables_AnyProcess(settings, calc, is_locutor) ==
    (IF calc.use_shadow_pricing /\ "SHADOW_PRICE_TABLE" \in DOMAIN settings
     THEN << <<settings["SHADOW_PRICE_TABLE"],
               Frame({"shadow_price"}, calc.shadow_prices)>> >>
     ELSE <<>>)
    \o (IF "MODELED_SIZE_TABLE" \in DOMAIN settings
        THEN << <<settings["MODELED_SIZE_TABLE"],
                  Frame({"modeled_size"}, calc.modeled_size)>> >>
        ELSE <<>>)

shadow_tables(settings, calc, is_locutor) ==
    IF ~is_locutor THEN <<>>
    ELSE (IF calc.use_shadow_pricing /\ "SHADOW_PRICE_TABLE" \in DOMAIN settings
          THEN << <<settings["SHADOW_PRICE_TABLE"],
                    Frame({"shadow_price"}, calc.shadow_prices)>> >>
          ELSE <<>>)
         \o (IF "MODELED_SIZE_TABLE" \in DOMAIN settings
             THEN << <<settings["MODELED_SIZE_TABLE"],
                       Frame({"modeled_size"}, calc.modeled_size)>> >>
             ELSE <<>>)

RECURSIVE add_tables(_, _)
\* inject.add_table for each of the tables `added`, in turn
add_tables(registry, added) ==
    IF Len(added) = 0 THEN registry
    ELSE add_tables(add_table(registry, added[1][1], added[1][2]), Tail(added))

\* the sample's chooser ids: save_sample_df.index.get_level_values(0).unique()
sample_choosers(sample) == {sample.rows[i].id : i \in DOMAIN sample.rows}

\* the "if save_sample_df is not None" block: the exception it raises, if any
sample_error_NoCheck(registry, sample, choices, sample_table_name) ==
    IF sample.none THEN NoException
    ELSE IF Cardinality(sample_choosers(sample)) # Len(choices.rows)
         THEN "AssertionError"
    ELSE NoException

sample_error(registry, sample, choices, sample_table_name) ==
    IF sample.none THEN NoException
    ELSE IF Cardinality(sample_choosers(sample)) # Len(choices.rows)
         THEN "AssertionError"
    ELSE IF is_table(registry, sample_table_name) THEN "RuntimeError"
    ELSE NoException

\* iterate_location_choice from "# - shadow price table" to its return
save_results(registry, settings, calc, is_locutor, choices, sample) ==
    LET dest_choice_column_name == settings["DEST_CHOICE_COLUMN_NAME"]
        logsum_column_name == DictGet(settings, "DEST_CHOICE_LOGSUM_COLUMN_NAME", None)
        sample_table_name == DictGet(settings, "DEST_CHOICE_SAMPLE_TABLE_NAME", None)
        added == shadow_tables(settings, calc, is_locutor)
        t2 == add_tables(registry, added)
        events == [i \in DOMAIN added |->
                      Event("add_table", 0, added[i][1], <<>>, <<>>, FALSE)]
        persons == t2["persons"]
        choice == Column(choices, "choice")
        with_choice ==
            SetColumn(persons, dest_choice_column_name,
                      fillna(Series_reindex(choice, FrameIndex(persons)), NO_DEST_TAZ))
        with_logsum ==
            IF Truthy(logsum_column_name)
            THEN SetColumn(with_choice, logsum_column_name,
                           Series_reindex(Column(choices, "logsum"), FrameIndex(persons)))
            ELSE with_choice
        annotated ==
            IF "annotate_persons" \in DOMAIN settings
            THEN assign_columns(with_logsum, settings["annotate_persons"])
            ELSE with_logsum
        t3 == IF sample.none THEN t2 ELSE extend_table(t2, sample_table_name, sample)
        t4 == IF "annotate_persons" \in DOMAIN settings
              THEN replace_table(t3, "persons", annotated) ELSE t3
        t5 == IF "annotate_households" \in DOMAIN settings
              THEN replace_table(t4, "households",
                                 assign_columns(t4["households"],
                                                settings["annotate_households"]))
              ELSE t4
    IN IF reindex_raises(choice) THEN StepResult(t2, NoFrame, "ValueError", events)
       ELSE IF sample_error(t2, sample, choices, sample_table_name) # NoException
            THEN StepResult(t2, NoFrame,
                            sample_error(t2, sample, choices, sample_table_name), events)
       ELSE StepResult(t5, annotated, NoException, events)

---------------------------------------------------------------------------
(* Inputs of the location choice steps *)

StepNames == {"school_location", "workplace_location"}

Person(id, is_student, is_worker, segment) ==
    Record(id, [is_student |-> is_student, is_worker |-> is_worker, segment |-> segment])

\* the persons table before the location choice steps: the filter columns of
\* the two steps and the segment column (9 is a code of no segment)
PersonsTables ==
    { Frame({"is_student", "is_worker", "segment"}, rows) :
        rows \in { << Person(3, TRUE, TRUE, 2), Person(1, TRUE, FALSE, 1),
                      Person(2, FALSE, FALSE, 1) >>,
                   << Person(1, TRUE, TRUE, 9), Person(2, FALSE, FALSE, 1) >>,
                   << Person(2, TRUE, FALSE, 1), Person(1, TRUE, FALSE, 9) >> } }

Households == Frame({"income"}, << Record(1, [income |-> "low"]) >>)

DestChoiceColumn(label) ==
    IF label = "school_location" THEN "school_taz" ELSE "workplace_taz"

ChooserFilterColumn(label) ==
    IF label = "school_location" THEN "is_student" ELSE "is_worker"

\* the keys every location choice settings file has
RequiredSettings(label, segment_ids) ==
    [CHOOSER_SEGMENT_COLUMN_NAME |-> "segment",
     CHOOSER_FILTER_COLUMN_NAME |-> ChooserFilterColumn(label),
     DEST_CHOICE_COLUMN_NAME |-> DestChoiceColumn(label),
     SEGMENT_IDS |-> segment_ids]

SegmentIds == << <<"university", 1>>, <<"highschool", 2>> >>

\* two segment names sharing one code
SharedSegmentIds == << <<"university", 1>>, <<"highschool", 1>> >>

\* school_location.yaml / workplace_location.yaml
LocationSettingsFiles(label) ==
    { RequiredSettings(label, SegmentIds),
      RequiredSettings(label, SegmentIds)
        @@ ("DEST_CHOICE_SAMPLE_TABLE_NAME" :> "location_sample"),
      RequiredSettings(label, SharedSegmentIds)
        @@ ("DEST_CHOICE_SAMPLE_TABLE_NAME" :> "location_sample"),
      RequiredSettings(label, SegmentIds)
        @@ ("DEST_CHOICE_LOGSUM_COLUMN_NAME" :> "dest_logsum")
        @@ ("annotate_persons" :> "has_destination")
        @@ ("MODELED_SIZE_TABLE" :> "modeled_size"),
      RequiredSettings(label, SegmentIds)
        @@ ("DEST_CHOICE_LOGSUM_COLUMN_NAME" :> "dest_logsum")
        @@ ("DEST_CHOICE_SAMPLE_TABLE_NAME" :> "location_sample")
        @@ ("SHADOW_PRICE_TABLE" :> "shadow_prices")
        @@ ("MODELED_SIZE_TABLE" :> "modeled_size")
        @@ ("annotate_persons" :> "has_destination")
        @@ ("annotate_households" :> "has_commuter") }

NoSettings == [k \in {} |-> None]

---------------------------------------------------------------------------
(* State machine of the location choice steps *)

\* the choices handed to spc.set_choices: choices_df['choice']
recorded_choices_None(choices) == <<>>

recorded_choices(choices) == Column(choices, "choice")

\* whether the for loop runs another iteration after `iter`, `result` being
\* what check_fit(iter) returned (FALSE when it was not called)
loop_continues_IgnoreFit(calc, iter, result) == iter < calc.max_iterations

loop_continues(calc, iter, result) == ~result /\ iter < calc.max_iterations

\* the statement the for loop reaches at the top of iteration `iter`
loop_top_EveryIteration(calc, iter) ==
    IF calc.use_shadow_pricing THEN "update_shadow_prices"
    ELSE "run_location_choice"

loop_top(calc, iter) ==
    IF calc.use_shadow_pricing /\ iter > 1 THEN "update_shadow_prices"
    ELSE "run_location_choice"

\* no step is running
LocIdle ==
    /\ done = <<>>
    /\ trace_label = None
    /\ step_settings = NoSettings
    /\ spc = ShadowPriceCalculator(FALSE, 1)
    /\ pc = "idle"
    /\ iteration = 0
    /\ choices_df = NoFrame
    /\ save_sample_df = NoFrame
    /\ persons_df = NoFrame
    /\ calls = <<>>
    /\ raised = NoException

\* no estimation is configured
EstIdle ==
    /\ configs = CHOOSE c \in EstimationSettingsFiles : "enable" \notin DOMAIN c
    /\ manager = EstimationManager_init
    /\ estimators = <<>>
    /\ fs = CHOOSE f \in InitialBundles : f.dirs = {}
    /\ last = Call("start", 0, "", NoException)
    /\ hist = <<>>
    /\ ncalls = 0

InitLocation ==
    /\ EstIdle
    /\ PipelineAtRest
    /\ CoreAtRest
    /\ LocIdle
    /\ table_registry \in { [n \in {"persons", "households"} |->
                        IF n = "persons" THEN p ELSE Households] : p \in PersonsTables }
    /\ locutor \in BOOLEAN

\* school_location / workplace_location: read the model settings and enter
\* iterate_location_choice up to the top of its loop
LocationStep(label) ==
    /\ pc = "idle"
    /\ raised = NoException
    /\ \A i \in DOMAIN done : done[i].trace_label # label
    /\ \E settings \in LocationSettingsFiles(label),
          use_shadow_pricing \in BOOLEAN, max_iterations \in 1..MaxIterations :
          /\ step_settings' = settings
          /\ spc' = ShadowPriceCalculator(use_shadow_pricing, max_iterations)
          /\ pc' = loop_top(spc', 1)
    /\ trace_label' = label
    /\ iteration' = 1
    /\ choices_df' = NoFrame
    /\ save_sample_df' = NoFrame
    /\ persons_df' = NoFrame
    /\ calls' = <<>>
    /\ UNCHANGED <<table_registry, locutor, done, raised>>
    /\ UNCHANGED NotLocation

UpdateShadowPrices ==
    /\ pc = "update_shadow_prices"
    /\ spc' = update_shadow_prices(spc)
    /\ calls' = Append(calls, Event("update_shadow_prices", iteration, "", <<>>,
                                    spc'.shadow_prices, FALSE))
    /\ pc' = "run_location_choice"
    /\ UNCHANGED <<table_registry, locutor, done, trace_label, step_settings, iteration,
                   choices_df, save_sample_df, persons_df, raised>>
    /\ UNCHANGED NotLocation

RunLocationChoice ==
    /\ pc = "run_location_choice"
    /\ \E draw \in Draws :
         LET r == run_location_choice(
                      filter_choosers(persons_merged(table_registry),
                                      step_settings["CHOOSER_FILTER_COLUMN_NAME"]),
                      spc,
                      "DEST_CHOICE_LOGSUM_COLUMN_NAME" \in DOMAIN step_settings,
                      "DEST_CHOICE_SAMPLE_TABLE_NAME" \in DOMAIN step_settings,
                      step_settings, iteration, draw)
         IN /\ choices_df' = r.choices_df
            /\ save_sample_df' = r.save_sample_df
            /\ calls' = calls \o r.calls
                        \o <<Event("run_location_choice", iteration, "",
                                   Column(r.choices_df, "choice"), <<>>, FALSE)>>
    /\ pc' = "set_choices"
    /\ UNCHANGED <<table_registry, locutor, done, trace_label, step_settings, spc, iteration,
                   persons_df, raised>>
    /\ UNCHANGED NotLocation

SetChoices ==
    /\ pc = "set_choices"
    /\ spc' = set_choices(spc, recorded_choices(choices_df))
    /\ calls' = Append(calls, Event("set_choices", iteration, "",
                                    recorded_choices(choices_df), <<>>, FALSE))
    /\ pc' = IF locutor THEN "write_trace_files" ELSE "check_fit"
    /\ UNCHANGED <<table_registry, locutor, done, trace_label, step_settings, iteration,
                   choices_df, save_sample_df, persons_df, raised>>
    /\ UNCHANGED NotLocation

WriteTraceFiles ==
    /\ pc = "write_trace_files"
    /\ calls' = Append(calls, Event("write_trace_files", iteration, "", <<>>, <<>>, FALSE))
    /\ pc' = "check_fit"
    /\ UNCHANGED <<table_registry, locutor, done, trace_label, step_settings, spc, iteration,
                   choices_df, save_sample_df, persons_df, raised>>
    /\ UNCHANGED NotLocation

\* the end of the loop body: break on a fit, else the next iteration if any
CheckFit ==
    /\ pc = "check_fit"
    /\ \E result \in BOOLEAN :
         /\ spc.use_shadow_pricing \/ ~result
         /\ calls' = IF spc.use_shadow_pricing
                     THEN Append(calls, Event("check_fit", iteration, "",
                                              spc.modeled_size, spc.shadow_prices, result))
                     ELSE calls
         /\ IF loop_continues(spc, iteration, result)
            THEN /\ iteration' = iteration + 1
                 /\ pc' = loop_top(spc, iteration + 1)
            ELSE /\ iteration' = iteration
                 /\ pc' = "save_results"
    /\ UNCHANGED <<table_registry, locutor, done, trace_label, step_settings, spc,
                   choices_df, save_sample_df, persons_df, raised>>
    /\ UNCHANGED NotLocation

SaveResults ==
    /\ pc = "save_results"
    /\ LET r == save_results(table_registry, step_settings, spc, locutor,
                             choices_df, save_sample_df)
       IN /\ table_registry' = r.tables
          /\ persons_df' = r.persons_df
          /\ raised' = r.exc
          /\ calls' = calls \o r.calls
          /\ done' = IF r.exc = NoException
                     THEN Append(done, [trace_label |-> trace_label,
                                        model_settings |-> step_settings,
                                        sampled |-> ~save_sample_df.none])
                     ELSE done
    /\ pc' = "idle"
    /\ UNCHANGED <<locutor, trace_label, step_settings, spc, iteration,
                   choices_df, save_sample_df>>
    /\ UNCHANGED NotLocation

NextLocation ==
    \/ \E label \in StepNames : LocationStep(label)
    \/ UpdateShadowPrices
    \/ RunLocationChoice
    \/ SetChoices
    \/ WriteTraceFiles
    \/ CheckFit
    \/ SaveResults

SpecLocation == InitLocation /\ [][NextLocation]_vars


---------------------------------------------------------------------------
(* The checkpointed step orchestrator (activitysim.core.pipeline), as the   *)
(* regression tests of activitysim/abm/test/test_pipeline.py drive it.     *)
(*                                                                         *)
(* The content of a table is the sequence of the steps that wrote to it,   *)
(* each with the checkpoints that preceded it: a step's output depends on  *)
(* the tables it reads and on the random streams of that step.  An error   *)
(* is its message, a sequence of tokens; no error is the empty sequence.   *)

MaxRuns == 2

\* the steps of the mini pipeline test, in the order of its model list
MiniModels ==
    << "initialize_households", "auto_ownership_simulate",
       "cdap_simulate", "mandatory_tour_frequency" >>

\* the tables a step replaces or creates
step_tables(model_name) ==
    CASE model_name = "initialize_households" -> {"households", "persons"}
      [] model_name = "auto_ownership_simulate" -> {"households"}
      [] model_name = "cdap_simulate" -> {"persons", "households"}
      [] model_name = "mandatory_tour_frequency" -> {"persons", "tours"}

NoError == <<>>

\* the checkpoint store before anything is written to it
EmptyStore == [checkpoints |-> <<>>, frames |-> [k \in {} |-> <<>>]]

\* the pipeline before it is opened and after it is closed
ClosedPipeline == [is_open |-> FALSE, checkpoints |-> <<>>, tables |-> [t \in {} |-> <<>>]]

\* a row of the checkpoints table: for each table, the checkpoint that holds
\* its latest version
Checkpoint(checkpoint_name, versions) ==
    [checkpoint_name |-> checkpoint_name, tables |-> versions]

checkpoint_names(checkpoint_list) ==
    [i \in DOMAIN checkpoint_list |-> checkpoint_list[i].checkpoint_name]

PipelineResult(state, store, error) == [state |-> state, store |-> store, exc |-> error]

\* the tables after the step ran on them
run_step(live, model_name, before) ==
    [t \in DOMAIN live \cup step_tables(model_name) |->
        IF t \in step_tables(model_name)
        THEN Append(IF t \in DOMAIN live THEN live[t] ELSE <<>>,
                    [step |-> model_name, after |-> before])
        ELSE live[t]]

\* pipeline.add_checkpoint: the tables written by the step are saved under
\* the checkpoint's name and the checkpoints table is rewritten
add_checkpoint(state, store, checkpoint_name, written) ==
    LET n == Len(state.checkpoints)
        prev == IF n = 0 THEN [t \in {} |-> ""] ELSE state.checkpoints[n].tables
        versions == [t \in DOMAIN prev \cup written |->
                        IF t \in written THEN checkpoint_name ELSE prev[t]]
        keys == {<<t, checkpoint_name>> : t \in written}
        frames == [k \in DOMAIN store.frames \cup keys |->
                      IF k \in keys THEN state.tables[k[1]] ELSE store.frames[k]]
        checkpoint_list == Append(state.checkpoints, Checkpoint(checkpoint_name, versions))
    IN PipelineResult([state EXCEPT !.checkpoints = checkpoint_list],
                      [checkpoints |-> checkpoint_list, frames |-> frames],
                      NoError)

\* run_model, "can't run same model more than once"
already_run_Never(checkpoint_list, model_name) == FALSE

already_run(checkpoint_list, model_name) ==
    \E i \in DOMAIN checkpoint_list : checkpoint_list[i].checkpoint_name = model_name

\* pipeline.run_model(model_name)
run_model(state, store, model_name) ==
    IF already_run(state.checkpoints, model_name)
    THEN PipelineResult(state, store, <<"Cannot run model", model_name, "more than once">>)
    ELSE add_checkpoint(
             [state EXCEPT !.tables = run_step(state.tables, model_name,
                                               checkpoint_names(state.checkpoints))],
             store, model_name, step_tables(model_name))

\* the position of a checkpoint in the checkpoints table
checkpoint_index(checkpoint_list, checkpoint_name) ==
    CHOOSE i \in DOMAIN checkpoint_list :
        checkpoint_list[i].checkpoint_name = checkpoint_name

\* pipeline.load_checkpoint: the checkpoints up to the named one are kept and
\* the tables are loaded as of that checkpoint
load_checkpoint_KeepLater(store, checkpoint_name) ==
    LET i == checkpoint_index(store.checkpoints, checkpoint_name)
        row == store.checkpoints[i]
    IN [is_open |-> TRUE,
        checkpoints |-> store.checkpoints,
        tables |-> [t \in DOMAIN row.tables |-> store.frames[<<t, row.tables[t]>>]]]

load_checkpoint(store, checkpoint_name) ==
    LET i == checkpoint_index(store.checkpoints, checkpoint_name)
        row == store.checkpoints[i]
    IN [is_open |-> TRUE,
        checkpoints |-> SubSeq(store.checkpoints, 1, i),
        tables |-> [t \in DOMAIN row.tables |-> store.frames[<<t, row.tables[t]>>]]]

\* pipeline.open_pipeline(resume_after): a new empty pipeline, or the state of
\* the store after the named checkpoint
open_pipeline(state, store, resume_after) ==
    IF resume_after = None
    THEN PipelineResult([ClosedPipeline EXCEPT !.is_open = TRUE], EmptyStore, NoError)
    ELSE IF ~already_run(store.checkpoints, resume_after)
         THEN PipelineResult(state, store, <<"checkpoint", resume_after, "not in checkpoints">>)
    ELSE PipelineResult(load_checkpoint(store, resume_after), store, NoError)

\* pipeline.close_pipeline
close_pipeline(state, store) == PipelineResult(ClosedPipeline, store, NoError)

\* pipeline.get_checkpoints
get_checkpoints(state, store) ==
    IF state.is_open THEN state.checkpoints ELSE store.checkpoints

---------------------------------------------------------------------------
(* State machine of the pipeline tests *)

PipelineCall(op, name, error) == [op |-> op, name |-> name, exc |-> error]

InitPipeline ==
    /\ EstIdle
    /\ LocationAtRest
    /\ PipelineAtRest
    /\ CoreAtRest

\* pipeline.open_pipeline / pipeline.run(models, resume_after) up to its
\* first step
OpenPipeline(resume_after) ==
    /\ ~pipeline_state.is_open
    /\ nruns < MaxRuns
    /\ nruns' = nruns + 1
    /\ LET r == open_pipeline(pipeline_state, pipeline_store, resume_after)
       IN /\ pipeline_state' = r.state
          /\ pipeline_store' = r.store
          /\ pipe_last' = PipelineCall("open_pipeline", resume_after, r.exc)
          /\ resumed' = IF r.exc = NoError
                        THEN [resume_after |-> resume_after, store |-> pipeline_store]
                        ELSE resumed
    /\ UNCHANGED NotPipeline

RunModel(model_name) ==
    /\ pipeline_state.is_open
    /\ LET r == run_model(pipeline_state, pipeline_store, model_name)
       IN /\ pipeline_state' = r.state
          /\ pipeline_store' = r.store
          /\ pipe_last' = PipelineCall("run_model", model_name, r.exc)
    /\ UNCHANGED <<resumed, nruns>>
    /\ UNCHANGED NotPipeline

ClosePipeline ==
    /\ pipeline_state.is_open
    /\ LET r == close_pipeline(pipeline_state, pipeline_store)
       IN /\ pipeline_state' = r.state
          /\ pipeline_store' = r.store
          /\ pipe_last' = PipelineCall("close_pipeline", "", r.exc)
    /\ UNCHANGED <<resumed, nruns>>
    /\ UNCHANGED NotPipeline

NextPipeline ==
    \/ \E resume_after \in {None} \cup Range(MiniModels) : OpenPipeline(resume_after)
    \/ \E model_name \in Range(MiniModels) : RunModel(model_name)
    \/ ClosePipeline

SpecPipeline == InitPipeline /\ [][NextPipeline]_vars

---------------------------------------------------------------------------
(* Survey-to-override inference (example_estimation/infer.py)              *)
(*                                                                         *)
(* The persons table is its index, a sequence of person ids; the tours     *)
(* table is a sequence of rows (person_id, tour_type).  A Series over the  *)
(* persons index is a sequence of entries (id, value).                     *)

MaxTours == 3

\* Series.astype(np.int8): the value modulo 2^8, in -128..127
astype_int8(v) == ((v + 128) % 256) - 128

\* tours[tours.tour_type == tour_type].groupby('person_id').size()
\*     .reindex(persons.index).fillna(0).astype(np.int8)
num_tours_AnyType(tours, tour_type, index) ==
    [i \in DOMAIN index |->
        astype_int8(Cardinality({k \in DOMAIN tours : tours[k].person_id = index[i]}))]

num_tours(tours, tour_type, index) ==
    [i \in DOMAIN index |->
        astype_int8(Cardinality({k \in DOMAIN tours :
                                    /\ tours[k].tour_type = tour_type
                                    /\ tours[k].person_id = index[i]}))]

\* the dict mtf of infer_mandatory_tour_frequency
mtf ==
    (0 :> "") @@ (1 :> "work1") @@ (2 :> "work2") @@ (10 :> "school1")
    @@ (20 :> "school2") @@ (11 :> "work_and_school")

\* Series.map(dict): the dict's value for each entry, NaN for a missing key
Series_map(values, mapping) ==
    [i \in DOMAIN values |->
        IF values[i] \in DOMAIN mapping THEN mapping[values[i]] ELSE NaN]

\* infer_mandatory_tour_frequency(households, persons, tours); the sum and the
\* product are int8 arithmetic
infer_mandatory_tour_frequency(persons, tours) ==
    LET num_work_tours == num_tours(tours, "work", persons)
        num_school_tours == num_tours(tours, "school", persons)
        code == [i \in DOMAIN persons |->
                    astype_int8(num_work_tours[i] + astype_int8(num_school_tours[i] * 10))]
        mandatory_tour_frequency == Series_map(code, mtf)
    IN [i \in DOMAIN persons |->
           [id |-> persons[i], value |-> mandatory_tour_frequency[i]]]

\* survey_persons.csv: the person ids, in file order
SurveyPersons == {<<1, 2>>, <<3, 1, 2>>}

\* survey_tours.csv: up to MaxTours tours of the persons 1..3
SurveyTours ==
    UNION {[1..n -> [person_id : {1, 2, 3}, tour_type : {"work", "school", "shopping"}]] :
              n \in 0..MaxTours}

InitInfer ==
    /\ EstIdle
    /\ LocationAtRest
    /\ PipelineAtRest
    /\ ReadAtRest
    /\ ModeAtRest
    /\ SimAtRest
    /\ survey_persons \in SurveyPersons
    /\ survey_tours \in SurveyTours
    /\ inferred = <<>>

\* the survey_table_config entry for mandatory_tour_frequency
InferMandatoryTourFrequency ==
    /\ inferred = <<>>
    /\ inferred' = infer_mandatory_tour_frequency(survey_persons, survey_tours)
    /\ UNCHANGED <<survey_persons, survey_tours>>
    /\ UNCHANGED NotInfer

NextInfer == InferMandatoryTourFrequency

SpecInfer == InitInfer /\ [][NextInfer]_vars


---------------------------------------------------------------------------
(* Reading a model spec (core/simulate.py, read_model_spec)                *)
(*                                                                         *)
(* A spec file is its rows below the header: the Expression text, the      *)
(* Label text when the file has a Label column, and the texts of the       *)
(* alternative columns.  A text is a sequence of tokens, the empty text    *)
(* <<>> being an empty field; a cell text is a string, "" an empty field.  *)
(* A cell of the frame is a record (kind, num, str): a number, a string    *)
(* or NaN.                                                                 *)

MaxSpecRows == 3

NumCell(n) == [kind |-> "num", num |-> n, str |-> ""]
StrCell(text) == [kind |-> "str", num |-> 0, str |-> text]
NaNCell == [kind |-> "nan", num |-> 0, str |-> ""]

\* the numerals that occur in the spec files, and their values
Numerals == ("0" :> 0) @@ ("1" :> 1)

\* pd.read_csv infers the dtype of each column from all of its fields: a
\* column whose fields are all numerals or empty is numeric, any other column
\* has dtype object and keeps each field as the string read
column_is_numeric(rows, c) ==
    \A i \in DOMAIN rows : rows[i].cells[c] = "" \/ rows[i].cells[c] \in DOMAIN Numerals

read_csv_cell(rows, i, c) ==
    LET text == rows[i].cells[c]
    IN IF text = "" THEN NaNCell
       ELSE IF column_is_numeric(rows, c) THEN NumCell(Numerals[text])
       ELSE StrCell(text)

\* pd.read_csv(file_path, comment='#')
read_csv(file) ==
    [has_label |-> file.has_label,
     rows |-> [i \in DOMAIN file.rows |->
                  [Expression |-> file.rows[i].Expression,
                   Label |-> file.rows[i].Label,
                   cells |-> [c \in DOMAIN file.rows[i].cells |->
                                 read_csv_cell(file.rows, i, c)]]]]

\* spec.dropna(subset=['Expression'])
HasExpression(row) == row.Expression # <<>>
dropna_Expression(rows) == SelectSeq(rows, HasExpression)

\* DataFrame.fillna(0)
fillna_0(rows) ==
    [i \in DOMAIN rows |->
        [rows[i] EXCEPT !.cells =
            [c \in DOMAIN @ |-> IF @[c].kind = "nan" THEN NumCell(0) ELSE @[c]]]]

\* "{} # ({})".format(key, n)
template_format(key, n) == key \o <<" # (", ToString(n), ")">>

\* assign.uniquify_key(dict, key, template): the first of key, template(key, 2),
\* template(key, 3), ... that is not yet a key of dict
RECURSIVE uniquify_key_from(_, _, _)
uniquify_key_from(keys, key, n) ==
    LET new_key == IF n = 1 THEN key ELSE template_format(key, n)
    IN IF new_key \in keys THEN uniquify_key_from(keys, key, n + 1) ELSE new_key

uniquify_key(keys, key) == uniquify_key_from(keys, key, 1)

\* uniquify_spec_index(spec): the keys of the OrderedDict, in insertion order
RECURSIVE uniquify_spec_index(_)
uniquify_spec_index(index) ==
    IF index = <<>> THEN <<>>
    ELSE LET n == Len(index)
             before == uniquify_spec_index(SubSeq(index, 1, n - 1))
         IN Append(before, uniquify_key(Range(before), index[n]))

\* spec == 0, for one cell
cell_eq_0(cell) == cell.kind = "num" /\ cell.num = 0

\* (spec == 0).all(axis=1), for one row
zero_row(row) == \A c \in DOMAIN row.cells : cell_eq_0(row.cells[c])
not_zero_row(row) == ~zero_row(row)

\* read_model_spec(file_name, spec_dir)
read_model_spec(file) ==
    LET spec0 == read_csv(file)
        rows1 == fillna_0(dropna_Expression(spec0.rows))
        index == uniquify_spec_index([i \in DOMAIN rows1 |-> rows1[i].Expression])
        rows2 == [i \in DOMAIN rows1 |-> [rows1[i] EXCEPT !.Expression = index[i]]]
    IN [none |-> FALSE,
        has_label |-> file.has_label,
        rows |-> SelectSeq(rows2, not_zero_row)]

\* the Expression texts of the spec files: an expression, the same expression
\* as a quoted field that ends in a dupe count, an empty field
SpecExpressions == {<<"a">>, <<"a", " # (", "2", ")">>, <<>>}

\* the fields of an alternative column: empty, a literal number, a
\* coefficient name
SpecFields == {"", "0", "1", "coef_a"}

\* the spec files: up to MaxSpecRows rows of two alternative columns, with or
\* without a Label column
SpecFileRows(has_label) ==
    [Expression : SpecExpressions,
     Label : IF has_label THEN {"L"} ELSE {""},
     cells : [1..2 -> SpecFields]]

SpecFiles ==
    UNION {[has_label : {l}, rows : [1..n -> SpecFileRows(l)]] :
              <<l, n>> \in BOOLEAN \X (0..MaxSpecRows)}

InitRead ==
    /\ EstIdle
    /\ LocationAtRest
    /\ PipelineAtRest
    /\ InferAtRest
    /\ ModeAtRest
    /\ SimAtRest
    /\ spec_file \in SpecFiles
    /\ model_spec = NoSpec

\* a model step reads its spec
ReadModelSpec ==
    /\ model_spec.none
    /\ model_spec' = read_model_spec(spec_file)
    /\ UNCHANGED spec_file
    /\ UNCHANGED NotRead

NextRead == ReadModelSpec

SpecRead == InitRead /\ [][NextRead]_vars


---------------------------------------------------------------------------
(* Coefficients (core/simulate.py, eval_coefficients)                      *)
(*                                                                         *)
(* A coefficient value is an integer number of units; np.float32 holds 24  *)
(* significant bits of it.  A Python call that takes an object returns,    *)
(* besides its value, the state of that object after the call.             *)

\* Series.astype(np.float32), for magnitudes below 2^25: 24 significant bits,
\* ties to even
astype_float32(v) ==
    LET a == IF v < 0 THEN -v ELSE v
        lo == (a \div 2) * 2
        r == IF a < 16777216 \/ a % 2 = 0 THEN a
             ELSE IF lo % 4 = 0 THEN lo ELSE lo + 2
    IN IF v < 0 THEN -r ELSE r

\* the coefficients file: coefficient_name -> value
CoefficientsDf ==
    [coef_ivt_work |-> -134, coef_ivt_school |-> -224, coef_cost |-> 16777217]

\* the coefficient template file: segment -> generic name -> coefficient name
TemplateDf ==
    [work |-> [coef_ivt |-> "coef_ivt_work", coef_cost |-> "coef_cost"],
     school |-> [coef_ivt |-> "coef_ivt_school", coef_cost |-> "coef_cost"]]

\* get_segment_coefficients(model_settings, segment_name):
\* template_df[segment_name].map(coefficients_df.value).to_dict()
get_segment_coefficients(segment_name) ==
    [g \in DOMAIN TemplateDf[segment_name] |->
        CoefficientsDf[TemplateDf[segment_name][g]]]

\* the names that the terms of a cell text's sum refer to
CellTerms ==
    ("coef_ivt" :> <<"coef_ivt">>) @@ ("coef_ivt+coef_cost" :> <<"coef_ivt", "coef_cost">>)
    @@ ("coef_walk" :> <<"coef_walk">>)

RECURSIVE SumOf(_, _)
SumOf(names, coefficients) ==
    IF names = <<>> THEN 0 ELSE coefficients[Head(names)] + SumOf(Tail(names), coefficients)

\* eval(str(x), {}, coefficients) for one cell x: a number evaluates to
\* itself, a numeral to its number, a name to the coefficient of that name
eval_cell(x, coefficients) ==
    IF x.kind = "num" THEN [exc |-> NoException, value |-> x.num]
    ELSE IF x.str \in DOMAIN Numerals THEN [exc |-> NoException, value |-> Numerals[x.str]]
    ELSE IF Range(CellTerms[x.str]) \subseteq DOMAIN coefficients
         THEN [exc |-> NoException, value |-> SumOf(CellTerms[x.str], coefficients)]
    ELSE [exc |-> "NameError", value |-> 0]

\* the columns of spec with each cell evaluated and cast to np.float32
evaluated_rows(spec, coefficients) ==
    [i \in DOMAIN spec |->
        [spec[i] EXCEPT !.cells =
            [c \in DOMAIN @ |-> NumCell(astype_float32(eval_cell(@[c], coefficients).value))]]]

cells_raise(spec, coefficients) ==
    \E i \in DOMAIN spec : \E c \in DOMAIN spec[i].cells :
        eval_cell(spec[i].cells[c], coefficients).exc # NoException

\* eval_coefficients(spec, coefficients): arg is the caller's spec object after
\* the call, ret the spec returned
eval_coefficients(spec, coefficients) ==
    LET copy == spec
    IN IF cells_raise(copy, coefficients)
       THEN [arg |-> spec, ret |-> <<>>, exc |-> "NameError"]
       ELSE [arg |-> spec, ret |-> evaluated_rows(copy, coefficients), exc |-> NoException]


---------------------------------------------------------------------------
(* The tour mode choice step (abm/models/tour_mode_choice.py) and its      *)
(* utility run_tour_mode_choice_simulate (abm/models/util/mode.py)         *)
(*                                                                         *)
(* The step is one call: begin_estimation, the writers, one call of the    *)
(* utility per tour type, the concatenation of the choices, the override,  *)
(* end_estimation and the replacement of the tours table.  Its state is    *)
(* the record st; a call that raises ends the step with st.exc set.        *)

MaxModeCalls == 2

\* a call names only parameters of the callee, else Python raises TypeError
\* before the body runs
binds(parameters, keywords) == keywords \subseteq parameters

\* def run_tour_mode_choice_simulate(...)
run_tour_mode_choice_simulate_parameters ==
    {"choosers", "spec", "tour_purpose", "model_settings", "skims", "constants",
     "nest_spec", "chunk_size", "trace_label", "trace_choice_name"}

\* def simple_simulate(...)
simple_simulate_parameters ==
    {"choosers", "spec", "nest_spec", "skims", "locals_d", "chunk_size",
     "custom_chooser", "estimator", "trace_label", "trace_choice_name"}

StepCall(op, arg) == [op |-> op, arg |-> arg]

\* the rows of the tours of one tour type, in table order
segment_of(tours, tour_type) == SelectSeq(tours, LAMBDA t : t.tour_type = tour_type)

\* run_tour_mode_choice_simulate(choosers, spec, tour_purpose, ...): arg is the
\* caller's spec after the call, spec_used the spec resolved for the segment;
\* draw is the alternative simple_simulate picks for each tour.  The choosers
\* are a fresh segment, so in_period and out_period are not yet columns of it.
run_tour_mode_choice_simulate(choosers, spec, tour_purpose, mgr, draw) ==
    LET coefficients == get_segment_coefficients(tour_purpose)
        r == eval_coefficients(spec, coefficients)
        raise(exc) == [arg |-> r.arg, spec_used |-> r.ret, choices |-> <<>>, exc |-> exc]
    IN IF r.exc # NoException THEN raise(r.exc)
       \* estimation.manager.write_choosers: EstimationManager has no such method
       ELSE IF DOMAIN mgr.estimating # {} THEN raise("AttributeError")
       ELSE IF ~binds(simple_simulate_parameters,
                      {"choosers", "spec", "nest_spec", "skims", "locals_d", "chunk_size",
                       "trace_label", "trace_choice_name", "estimation_hook"})
            THEN raise("TypeError")
       ELSE [arg |-> r.arg, spec_used |-> r.ret,
             choices |-> [i \in DOMAIN choosers |->
                             Choice(choosers[i].tour_id, draw[choosers[i].tour_id])],
             exc |-> NoException]

\* the step's state after a writer of the Estimator e returned or raised out
Applied(st, e, op, table, df, out) ==
    [st EXCEPT !.estimators[e] = out.self,
               !.fs = out.fs,
               !.hist[e] = IF out.exc = NoException /\ df # <<>>
                           THEN Logged(@, table, df) ELSE @,
               !.log = Append(@, StepCall(op, table)),
               !.exc = out.exc]

\* tour_mode_choice_simulate, the call of run_tour_mode_choice_simulate for
\* one tour type
call_run_tour_mode_choice_simulate(st, tour_type, draw) ==
    LET called == [st EXCEPT !.log = Append(@, StepCall("run_tour_mode_choice_simulate", tour_type))]
    IN IF ~binds(run_tour_mode_choice_simulate_parameters,
                 {"choosers", "spec", "tour_purpose", "model_settings", "skims", "constants",
                  "nest_spec", "estimator", "chunk_size", "trace_label", "trace_choice_name"})
       THEN [called EXCEPT !.exc = "TypeError"]
       ELSE LET r == run_tour_mode_choice_simulate(segment_of(st.tours, tour_type), st.spec,
                                                   tour_type, st.manager, draw)
            IN [called EXCEPT
                   !.spec = r.arg,
                   !.resolved = IF r.spec_used = <<>> THEN @
                                ELSE [t \in DOMAIN @ \cup {tour_type} |->
                                         IF t = tour_type THEN r.spec_used ELSE @[t]],
                   !.choices_list = IF r.exc = NoException THEN Append(@, r.choices) ELSE @,
                   !.exc = r.exc]

\* the value of F at the state prev of the step
Then(prev, F(_)) == CHOOSE st \in {F(x) : x \in {prev}} : TRUE

\* for tour_type, segment in primary_tours_merged.groupby('tour_type')
RECURSIVE segments_loop(_, _, _)
segments_loop(st, tour_types, draw) ==
    IF tour_types = <<>> \/ st.exc # NoException THEN st
    ELSE Then(call_run_tour_mode_choice_simulate(st, Head(tour_types), draw),
              LAMBDA x : segments_loop(x, Tail(tour_types), draw))

\* groupby yields the tour types present, sorted
TourTypes == <<"school", "work">>
grouped_tour_types(tours) ==
    SelectSeq(TourTypes, LAMBDA t : \E i \in DOMAIN tours : tours[i].tour_type = t)

\* assign_in_place(all_tours, choices.to_frame('tour_mode'))
assign_in_place(tours, choices) ==
    [i \in DOMAIN tours |->
        IF \E k \in DOMAIN choices : choices[k].id = tours[i].tour_id
        THEN [tours[i] EXCEPT !.tour_mode =
                 choices[CHOOSE k \in DOMAIN choices : choices[k].id = tours[i].tour_id].value]
        ELSE tours[i]]

\* the files the step hands to the writers
ModeCoefficientsFrame == <<Row(1, "coefficients", "value", "x")>>
ModeTemplateFrame == <<Row(1, "coefficients_template", "work", "x")>>

\* tour_mode_choice_simulate, lines 129-134: begin_estimation and the writers
\* of the configuration
step_begin_estimation(mgr, fsys, ests, h, settings, spec, tours) ==
    LET b == begin_estimation(mgr, fsys, ests, "tour_mode_choice", settings)
    IN [manager |-> b.manager, fs |-> b.fs, estimators |-> b.estimators,
        hist |-> IF b.ret = 0 THEN h ELSE Append(h, NoHistory),
        estimator |-> b.ret, spec |-> spec, tours |-> tours,
        resolved |-> <<>>, choices_list |-> <<>>, choices |-> <<>>,
        log |-> <<StepCall("begin_estimation", "tour_mode_choice")>>,
        exc |-> b.exc]

\* `if estimator:` after a call that returned
estimating_on(st) == st.exc = NoException /\ st.estimator # 0

step_write_coefficients(st) ==
    IF ~estimating_on(st) THEN st
    ELSE Applied(st, st.estimator, "write_coefficients", "coefficients",
                 ModeCoefficientsFrame,
                 write_coefficients(st.estimators[st.estimator], st.fs,
                                    ModeCoefficientsFrame, "coefficients"))

step_write_coefficients_template(st) ==
    IF ~estimating_on(st) THEN st
    ELSE Applied(st, st.estimator, "write_coefficients_template", "coefficients_template",
                 ModeTemplateFrame,
                 write_coefficients(st.estimators[st.estimator], st.fs,
                                    ModeTemplateFrame, "coefficients_template"))

step_write_spec(st) ==
    IF ~estimating_on(st) THEN st
    ELSE Applied(st, st.estimator, "write_spec", "SPEC", <<>>,
                 write_spec(st.estimators[st.estimator], st.fs,
                            "tour_mode_choice.csv", "SPEC"))

step_write_model_settings(st) ==
    IF ~estimating_on(st) THEN st
    ELSE Applied(st, st.estimator, "write_model_settings", "model_settings", <<>>,
                 write_model_settings(st.estimators[st.estimator], st.fs,
                                      FALSE, "tour_mode_choice.yaml"))

\* lines 137-165: the loop over the tour types, and pd.concat(choices_list),
\* which raises ValueError for an empty list
step_simulate(st, draw) ==
    IF st.exc # NoException THEN st
    ELSE segments_loop(st, grouped_tour_types(st.tours), draw)

step_concat(st) ==
    IF st.exc # NoException THEN st
    ELSE IF st.choices_list = <<>>
         THEN [st EXCEPT !.exc = "ValueError", !.log = Append(@, StepCall("concat", "choices"))]
    ELSE [st EXCEPT !.choices = Concat(st.choices_list)]

choices_series(st) == [kind |-> "Series", data |-> st.choices]

\* lines 167-170
step_write_choices(st) ==
    IF ~estimating_on(st) THEN st
    ELSE Applied(st, st.estimator, "write_choices", "choices",
                 to_frame(st.choices, "choices", "model_choice"),
                 write_choices(st.estimators[st.estimator], st.fs, choices_series(st)))

step_get_override_choices(st, survey_df) ==
    IF ~estimating_on(st) THEN st
    ELSE LET self == st.estimators[st.estimator]
             r == get_override_choices(self, st.fs, choices_series(st), survey_df)
             applied == Applied(st, st.estimator, "get_override_choices", "override_choices",
                                IF no_choice_settings(self) THEN <<>>
                                ELSE override_choices_frame(choices_series(st), survey_df),
                                r.out)
         IN IF r.out.exc # NoException THEN applied
            ELSE [applied EXCEPT !.choices = r.ret.data]

step_end_estimation(st) ==
    IF ~estimating_on(st) THEN st
    ELSE LET r == end_estimation(st.estimators[st.estimator], st.fs, st.manager)
         IN [st EXCEPT !.estimators[st.estimator] = r.self,
                       !.fs = r.fs,
                       !.manager = r.manager,
                       !.log = Append(@, StepCall("end_estimation", "tour_mode_choice")),
                       !.exc = r.exc]

\* lines 176-184: pipeline.replace_table("tours", all_tours)
step_replace_table(st) ==
    IF st.exc # NoException THEN st
    ELSE [st EXCEPT !.tours = assign_in_place(@, st.choices),
                    !.log = Append(@, StepCall("replace_table", "tours"))]

\* tour_mode_choice_simulate(tours, persons_merged, skim_dict, skim_stack,
\* chunk_size, trace_hh_id)
tour_mode_choice_simulate(mgr, fsys, ests, h, settings, spec, tours, draw, survey_df) ==
    LET began == step_begin_estimation(mgr, fsys, ests, h, settings, spec, tours)
        configured ==
            Then(Then(Then(Then(began, step_write_coefficients),
                           step_write_coefficients_template),
                      step_write_spec),
                 step_write_model_settings)
        simulated == Then(Then(configured, LAMBDA st : step_simulate(st, draw)), step_concat)
        overridden == Then(Then(simulated, step_write_choices),
                           LAMBDA st : step_get_override_choices(st, survey_df))
    IN Then(Then(overridden, step_end_estimation), step_replace_table)

\* estimation.yaml for a run with the tour mode choice step
ModeSettingsFiles ==
    { [models |-> {"tour_mode_choice", "auto_ownership"},
       model_settings |-> [m \in {"tour_mode_choice", "auto_ownership"} |-> ms]] :
          ms \in {[x \in {} |-> <<>>], [override_choices |-> "override_choices.csv"]} }
    \cup
    { [models |-> {"auto_ownership"},
       model_settings |-> [m \in {"auto_ownership"} |-> [x \in {} |-> <<>>]]],
      [enable |-> "false",
       models |-> {"tour_mode_choice"},
       model_settings |-> [m \in {"tour_mode_choice"} |-> [x \in {} |-> <<>>]]],
      [models |-> {"tour_mode_choice"},
       model_settings |-> [m \in {"auto_ownership"} |-> [x \in {} |-> <<>>]]] }

\* the tours table before the step: no tour, or tours of one or two types
Tour(tour_id, tour_type) == [tour_id |-> tour_id, tour_type |-> tour_type, tour_mode |-> None]

ToursTables ==
    {<<>>} \cup {<<Tour(1, t)>> : t \in Range(TourTypes)}
    \cup {<<Tour(1, t), Tour(2, u)>> : t, u \in Range(TourTypes)}

\* the spec of the step: one row of two alternatives whose cells are a
\* coefficient name, a sum of names, a name without coefficient, or numbers
ModeSpecCells ==
    {StrCell("coef_ivt"), StrCell("coef_ivt+coef_cost"), StrCell("coef_walk"),
     StrCell("1"), NumCell(0)}

ModeSpecs ==
    {<<[Expression |-> <<"a">>, Label |-> "", cells |-> cells]>> :
        cells \in [1..2 -> ModeSpecCells]}

InitMode ==
    /\ configs \in ModeSettingsFiles
    /\ manager = EstimationManager_init
    /\ estimators = <<>>
    /\ fs = [dirs |-> {},
             entries |-> [m \in ModelNames \cup {"tour_mode_choice"} |-> EmptyListing]]
    /\ last = Call("start", 0, "", NoException)
    /\ hist = <<>>
    /\ ncalls = 0
    /\ LocationAtRest
    /\ PipelineAtRest
    /\ InferAtRest
    /\ ReadAtRest
    /\ SimAtRest
    /\ mode_spec_file \in ModeSpecs
    /\ mode_spec = mode_spec_file
    /\ tours_table \in ToursTables
    /\ resolved = <<>>
    /\ step_log = <<>>
    /\ step_exc = NoException
    /\ mode_calls = 0

\* the pipeline runs the step tour_mode_choice_simulate
TourModeChoiceSimulate ==
    /\ mode_calls < MaxModeCalls
    /\ step_log = <<>>
    /\ \E draw \in [{1, 2} -> Alts], survey_df \in Surveys :
          \E r \in {tour_mode_choice_simulate(manager, fs, estimators, hist, configs,
                                              mode_spec_file, tours_table, draw, survey_df)} :
             /\ manager' = r.manager
             /\ fs' = r.fs
             /\ estimators' = r.estimators
             /\ hist' = r.hist
             /\ last' = Call("tour_mode_choice_simulate", r.estimator, "tour_mode_choice", r.exc)
             /\ resolved' = r.resolved
             /\ tours_table' = r.tours
             /\ step_log' = r.log
             /\ step_exc' = r.exc
    /\ mode_calls' = mode_calls + 1
    /\ UNCHANGED <<configs, ncalls, mode_spec_file, mode_spec>>
    /\ UNCHANGED NotEstimationNorMode

\* a caller holding the spec calls run_tour_mode_choice_simulate for the
\* tours of one purpose
RunTourModeChoiceSimulate(tour_purpose) ==
    /\ mode_calls < MaxModeCalls
    /\ step_log = <<>>
    /\ \E draw \in [{1, 2} -> Alts] :
          \E r \in {run_tour_mode_choice_simulate(segment_of(tours_table, tour_purpose),
                                                  mode_spec, tour_purpose, manager, draw)} :
             /\ mode_spec' = r.arg
             /\ resolved' = IF r.spec_used = <<>> THEN resolved
                            ELSE [t \in DOMAIN resolved \cup {tour_purpose} |->
                                     IF t = tour_purpose THEN r.spec_used ELSE resolved[t]]
             /\ step_exc' = r.exc
    /\ mode_calls' = mode_calls + 1
    /\ UNCHANGED <<mode_spec_file, tours_table, step_log>>
    /\ UNCHANGED NotMode

NextMode ==
    \/ BeginEstimation("auto_ownership")
    \/ TourModeChoiceSimulate
    \/ \E tour_purpose \in Range(TourTypes) : RunTourModeChoiceSimulate(tour_purpose)

SpecMode == InitMode /\ [][NextMode]_vars


---------------------------------------------------------------------------
(* simple_simulate (core/simulate.py): chunked multinomial logit choice    *)
(*                                                                         *)
(* A chooser is a row (id, x, age); age may be NaN.  The spec has two      *)
(* alternatives and integer coefficients.  The state of one call is the    *)
(* record st: the draws made so far from each chooser's random stream, the *)
(* frames handed to the estimator, the lines logged, the choices of the    *)
(* chunks done, and the exception raised, if any.  Only nest_spec = None   *)
(* (eval_mnl) and custom_chooser = None are modelled.                      *)

MaxChoosers == 3

Min2(a, b) == IF a < b THEN a ELSE b
Max2(a, b) == IF a > b THEN a ELSE b

\* chunk.rows_per_chunk(chunk_size, row_size, num_choosers): all rows when
\* chunk_size is 0, else as many rows as fit the budget, at least one
rows_per_chunk(chunk_size, row_size, num_choosers) ==
    IF chunk_size = 0 THEN num_choosers
    ELSE Min2(num_choosers, Max2(1, chunk_size \div row_size))

\* simple_simulate_rpc for nest_spec None: the choosers have the columns x
\* and age
simple_simulate_rpc(chunk_size, choosers, spec) ==
    LET chooser_row_size == 2
        extra_columns == Len(spec.rows) + 2 * 2
    IN rows_per_chunk(chunk_size, chooser_row_size + extra_columns, Len(choosers))

\* chunk.chunked_choosers(choosers, rows_per_chunk): consecutive batches of
\* rows_per_chunk rows, in row order
RECURSIVE chunked_choosers(_, _)
chunked_choosers(choosers, rpc) ==
    IF Len(choosers) <= rpc THEN <<choosers>>
    ELSE <<SubSeq(choosers, 1, rpc)>>
         \o chunked_choosers(SubSeq(choosers, rpc + 1, Len(choosers)), rpc)

RECURSIVE SeqMax(_)
SeqMax(values) ==
    IF Len(values) = 1 THEN values[1] ELSE Max2(Head(values), SeqMax(Tail(values)))

\* eval_utilities, the value of one expression over the chunk: eval(expr[1:],
\* globals_dict, locals_dict) with df the chunk, or choosers.eval(expr)
eval_expression(expr, choosers) ==
    LET rows == DOMAIN choosers
        ok(values) == [exc |-> NoException, values |-> values]
        raise(exc) == [exc |-> exc, values |-> <<>>]
    IN IF startswith(expr, <<"@">>)
       THEN IF Tail(expr) = <<"df.x.max()">>
            THEN ok([i \in rows |-> SeqMax([k \in rows |-> choosers[k].x])])
            ELSE IF Tail(expr) = <<"df.age.astype(int)">>
            THEN IF \E i \in rows : choosers[i].age.kind = "nan"
                 THEN raise("ValueError")
                 ELSE ok([i \in rows |-> choosers[i].age.num])
            ELSE raise("NameError")
       ELSE IF expr = <<"x">> THEN ok([i \in rows |-> choosers[i].x])
       ELSE raise("UndefinedVariableError")

\* the spec rows whose expression raises over the chunk
raising_rows(spec, choosers) ==
    {i \in DOMAIN spec.rows : eval_expression(spec.rows[i].Expression, choosers).exc # NoException}

\* np.dot(expression_values.transpose(), spec): utility of each alternative,
\* per chooser of the chunk
RECURSIVE dot_from(_, _, _, _, _)
dot_from(spec, choosers, row, alt, i) ==
    IF i > Len(spec.rows) THEN 0
    ELSE eval_expression(spec.rows[i].Expression, choosers).values[row]
             * spec.rows[i].cells[alt].num
         + dot_from(spec, choosers, row, alt, i + 1)

compute_utilities(spec, choosers) ==
    [row \in DOMAIN choosers |-> [alt \in 1..2 |-> dot_from(spec, choosers, row, alt, 1)]]

\* eval_utilities(spec, choosers, locals_d, trace_label, have_trace_targets,
\* estimator): the call's state afterwards, utilities in st.utilities
eval_utilities_LogOnly(spec, choosers, estimator, st) ==
    LET raising == raising_rows(spec, choosers)
        first == CHOOSE i \in raising : \A k \in raising : i <= k
    IN IF raising # {}
       THEN [st EXCEPT !.log_lines = Append(@, spec.rows[first].Expression),
                       !.utilities = [row \in DOMAIN choosers |-> [alt \in 1..2 |-> 0]]]
       ELSE IF estimator /\ ~spec.has_label THEN [st EXCEPT !.exc = "KeyError"]
       ELSE [st EXCEPT !.written = IF estimator THEN Append(@, IndexOf(choosers)) ELSE @,
                       !.utilities = compute_utilities(spec, choosers)]

eval_utilities(spec, choosers, estimator, st) ==
    LET raising == raising_rows(spec, choosers)
        first == CHOOSE i \in raising : \A k \in raising : i <= k
    IN IF raising # {}
       \* logger.exception("Variable evaluation failed for: ..."); raise err
       THEN [st EXCEPT !.log_lines = Append(@, spec.rows[first].Expression),
                       !.exc = eval_expression(spec.rows[first].Expression, choosers).exc]
       \* spec.index.get_level_values('Label') of an index without that level
       ELSE IF estimator /\ ~spec.has_label THEN [st EXCEPT !.exc = "KeyError"]
       ELSE [st EXCEPT !.written = IF estimator THEN Append(@, IndexOf(choosers)) ELSE @,
                       !.utilities = compute_utilities(spec, choosers)]

\* the draw of a chooser's stream: reproducible from the base seed, the
\* chooser id and the number of draws already made from the stream
Rand(seed, id, offset) == IF (seed + id + offset) % 2 = 0 THEN 25 ELSE 75

\* random_for_df(df): one draw per row, from the stream of the row's id
random_for_df(seed, index, offsets) ==
    [i \in DOMAIN index |-> Rand(seed, index[i], offsets[index[i]])]

\* logit.utils_to_probs and logit.make_choices for two alternatives: the
\* first alternative whose cumulative probability exceeds the draw.  With
\* d = u1 - u2 the probability of the first is 1 / (1 + exp(-d)), which
\* exceeds 0.25 iff d >= -1 and 0.75 iff d >= 2, for integer d
make_choice(utilities, rand) ==
    LET d == utilities[1] - utilities[2]
    IN IF (rand = 25 /\ d >= -1) \/ (rand = 75 /\ d >= 2) THEN 0 ELSE 1

\* logit.make_choices(probs): draws for the rows of the chunk, and advances
\* their streams
make_choices(seed, choosers, st) ==
    LET index == IndexOf(choosers)
        rands == random_for_df(seed, index, st.offsets)
    IN [st EXCEPT !.offsets = [id \in DOMAIN @ |->
                                  IF id \in Range(index) THEN @[id] + 1 ELSE @[id]],
                  !.choices = [i \in DOMAIN choosers |->
                                  Choice(index[i], make_choice(st.utilities[i], rands[i]))]]

\* _simple_simulate(chooser_chunk, spec, nest_spec=None, ...): eval_mnl
simulate_chunk_KeepLast(spec, chooser_chunk, estimator, seed, st) ==
    LET evaluated == Then(st, LAMBDA x : eval_utilities(spec, chooser_chunk, estimator, x))
    IN IF evaluated.exc # NoException THEN evaluated
       ELSE LET chosen == Then(evaluated, LAMBDA x : make_choices(seed, chooser_chunk, x))
            IN [chosen EXCEPT !.result_list = <<chosen.choices>>]

simulate_chunk(spec, chooser_chunk, estimator, seed, st) ==
    LET evaluated == Then(st, LAMBDA x : eval_utilities(spec, chooser_chunk, estimator, x))
    IN IF evaluated.exc # NoException THEN evaluated
       ELSE LET chosen == Then(evaluated, LAMBDA x : make_choices(seed, chooser_chunk, x))
            IN [chosen EXCEPT !.result_list = Append(@, chosen.choices)]

\* for i, num_chunks, chooser_chunk in chunk.chunked_choosers(...)
RECURSIVE chunks_loop(_, _, _, _, _)
chunks_loop(spec, chunks, estimator, seed, st) ==
    IF chunks = <<>> \/ st.exc # NoException THEN st
    ELSE Then(simulate_chunk(spec, Head(chunks), estimator, seed, st),
              LAMBDA x : chunks_loop(spec, Tail(chunks), estimator, seed, x))

\* the state of a call before its first chunk
CallState(choosers) ==
    [offsets |-> [id \in Range(IndexOf(choosers)) |-> 0],
     written |-> <<>>, log_lines |-> <<>>, utilities |-> <<>>, choices |-> <<>>,
     result_list |-> <<>>, exc |-> NoException]

\* simple_simulate(choosers, spec, nest_spec, skims, locals_d, chunk_size,
\* custom_chooser, estimator, trace_label, trace_choice_name)
simple_simulate(choosers, spec, chunk_size, estimator, seed) ==
    IF Len(choosers) = 0 THEN [CallState(choosers) EXCEPT !.exc = "AssertionError"]
    ELSE LET rpc == simple_simulate_rpc(chunk_size, choosers, spec)
             looped == chunks_loop(spec, chunked_choosers(choosers, rpc), estimator, seed,
                                   CallState(choosers))
         IN Then(looped, LAMBDA x :
                    IF x.exc # NoException THEN [x EXCEPT !.choices = <<>>]
                    ELSE [x EXCEPT !.choices = Concat(x.result_list)])

\* the choosers tables: up to MaxChoosers rows with distinct ids, in or out of
\* id order
ChooserIds(n) == IF n = 3 THEN {<<1, 2, 3>>, <<2, 3, 1>>} ELSE {[i \in 1..n |-> i]}

ChoosersTables ==
    UNION {{[i \in 1..n |-> [id |-> ids[i], x |-> xs[i], age |-> ages[i]]] :
               ids \in ChooserIds(n), xs \in [1..n -> {0, 2}],
               ages \in [1..n -> {NumCell(1), NaNCell}]} : n \in 0..MaxChoosers}

\* the expressions of a spec: a column, a value of the whole frame, a
\* conversion that fails on NaN, an undefined name
SimExpressions ==
    {<<"x">>, <<"@", "df.x.max()">>, <<"@", "df.age.astype(int)">>, <<"@", "undefined">>}

\* the specs: one or two rows, with or without a Label level
SimSpecRow(expr, k) ==
    [Expression |-> expr, Label |-> "L",
     cells |-> IF k = 1 THEN <<NumCell(2), NumCell(0)>> ELSE <<NumCell(0), NumCell(1)>>]

SimSpecs ==
    {[has_label |-> l, rows |-> <<SimSpecRow(e, 1)>>] :
        l \in BOOLEAN, e \in SimExpressions}
    \cup {[has_label |-> l, rows |-> <<SimSpecRow(e, 1), SimSpecRow(f, 2)>>] :
             l \in BOOLEAN, e \in SimExpressions, f \in SimExpressions}

\* chunk_size settings: no chunking, and budgets for one, two or three rows
ChunkSizes == {0, 7, 14, 21}

InitSim ==
    /\ EstIdle
    /\ LocationAtRest
    /\ PipelineAtRest
    /\ InferAtRest
    /\ ReadAtRest
    /\ ModeAtRest
    /\ sim_choosers \in ChoosersTables
    /\ sim_spec \in SimSpecs
    /\ sim_chunk_size \in ChunkSizes
    /\ sim_estimator \in BOOLEAN
    /\ base_seed \in {0, 1}
    /\ rng_offsets = [id \in Range(IndexOf(sim_choosers)) |-> 0]
    /\ expression_values_written = <<>>
    /\ log_lines = <<>>
    /\ sim_result = NoResult

\* a model step calls simple_simulate
SimpleSimulate ==
    /\ ~sim_result.done
    /\ \E r \in {simple_simulate(sim_choosers, sim_spec, sim_chunk_size, sim_estimator,
                                 base_seed)} :
          /\ rng_offsets' = r.offsets
          /\ expression_values_written' = r.written
          /\ log_lines' = r.log_lines
          /\ sim_result' = [done |-> TRUE, exc |-> r.exc, choices |-> r.choices]
    /\ UNCHANGED <<sim_choosers, sim_spec, sim_chunk_size, sim_estimator, base_seed>>
    /\ UNCHANGED NotSim

NextSim == SimpleSimulate

SpecSim == InitSim /\ [][NextSim]_vars


---------------------------------------------------------------------------
(* Properties of iterate_location_choice *)

\* the positions in the history of the calls of an operation
EventsOf(op) == {i \in DOMAIN calls : calls[i].op = op}

\* the step has left the loop of iterate_location_choice
LoopLeft == pc \in {"save_results", "idle"}

\* C12: the shadow price loop runs at most max_iterations iterations, each
\* iteration number once and in increasing order, and with shadow pricing
\* enabled nothing of a further iteration follows the first check_fit(i)
\* that returned true.
C12_LoopStopsAtFitOrMax ==
    /\ iteration <= spc.max_iterations
    /\ Cardinality(EventsOf("run_location_choice")) <= spc.max_iterations
    /\ \A i, j \in EventsOf("run_location_choice") :
          /\ calls[i].iteration \in 1..spc.max_iterations
          /\ i < j => calls[i].iteration < calls[j].iteration
    /\ \A i \in EventsOf("check_fit") :
          calls[i].result
            => /\ LoopLeft
               /\ iteration = calls[i].iteration
               /\ \A j \in DOMAIN calls : j > i => calls[j].op = "add_table"

\* a step converged before max_iterations and returned
C12_Witness ==
    /\ pc = "idle"
    /\ raised = NoException
    /\ \E i \in EventsOf("check_fit") :
          /\ calls[i].result
          /\ calls[i].iteration = 2
          /\ calls[i].iteration < spc.max_iterations

\* C13: update_shadow_prices is never called before the first
\* run_location_choice; with shadow pricing enabled it is called exactly once
\* at the start of each iteration from 2 onward, before the dest_size_terms of
\* that iteration are read (iteration 1 reads the unmodified size terms); with
\* shadow pricing disabled it is never called.
C13_UpdateOnlyFromSecondIteration ==
    /\ \A i \in EventsOf("update_shadow_prices") :
          /\ spc.use_shadow_pricing
          /\ calls[i].iteration >= 2
          /\ \E j \in EventsOf("run_location_choice") : j < i
    /\ \A i, k \in EventsOf("update_shadow_prices") :
          calls[i].iteration = calls[k].iteration => i = k
    /\ \A j \in EventsOf("run_location_choice") \cup EventsOf("dest_size_terms") :
          (spc.use_shadow_pricing /\ calls[j].iteration >= 2)
            => \E i \in EventsOf("update_shadow_prices") :
                  i < j /\ calls[i].iteration = calls[j].iteration
    /\ (spc.use_shadow_pricing /\ pc = "run_location_choice" /\ iteration >= 2)
          => \E i \in EventsOf("update_shadow_prices") : calls[i].iteration = iteration
    /\ \A j \in EventsOf("dest_size_terms") :
          Len(calls[j].prices) =
              IF spc.use_shadow_pricing THEN calls[j].iteration - 1 ELSE 0
    /\ ~spc.use_shadow_pricing => EventsOf("update_shadow_prices") = {}

\* the third iteration read size terms that were updated twice
C13_Witness ==
    \E j \in EventsOf("dest_size_terms") :
        /\ calls[j].iteration = 3
        /\ Len(calls[j].prices) = 2
        /\ \E i \in EventsOf("update_shadow_prices") : calls[i].iteration = 2

\* C14: in every executed iteration i, set_choices is called with the choices
\* returned by that iteration's run_location_choice, right after it and before
\* check_fit(i), so check_fit(i) and the next update_shadow_prices see the
\* modeled distribution of iteration i.
C14_SetChoicesFollowsRun ==
    /\ \A j \in EventsOf("run_location_choice") :
          IF j = Len(calls) THEN pc = "set_choices"
          ELSE /\ calls[j + 1].op = "set_choices"
               /\ calls[j + 1].iteration = calls[j].iteration
               /\ calls[j + 1].choices = calls[j].choices
    /\ \A i \in EventsOf("set_choices") :
          i > 1 /\ calls[i - 1].op = "run_location_choice"
    /\ \A i \in EventsOf("check_fit") :
          \E j \in EventsOf("set_choices") :
              /\ j < i
              /\ calls[j].iteration = calls[i].iteration
              /\ calls[i].choices = calls[j].choices
    /\ \A i \in EventsOf("update_shadow_prices") :
          \E j \in EventsOf("set_choices") :
              /\ j < i
              /\ calls[j].iteration = calls[i].iteration - 1
              /\ calls[i].prices[Len(calls[i].prices)] = calls[j].choices

\* check_fit(2) saw choices that differ from those of iteration 1
C14_Witness ==
    \E i \in EventsOf("check_fit"), j \in EventsOf("set_choices") :
        /\ calls[i].iteration = 2
        /\ calls[j].iteration = 1
        /\ Len(calls[j].choices) > 0
        /\ calls[i].choices # calls[j].choices


\* the settings of the steps that returned and of the step last entered
SettingsSeen == {done[i].model_settings : i \in DOMAIN done} \cup {step_settings}

\* C15: a process whose locutor flag is false never calls write_trace_files
\* and never adds the SHADOW_PRICE_TABLE or MODELED_SIZE_TABLE tables to the
\* registry.
C15_OnlyLocutorWritesSharedArtifacts ==
    ~locutor
      => /\ EventsOf("write_trace_files") = {}
         /\ EventsOf("add_table") = {}
         /\ \A settings \in SettingsSeen :
               \A key \in {"SHADOW_PRICE_TABLE", "MODELED_SIZE_TABLE"} \cap DOMAIN settings :
                   ~is_table(table_registry, settings[key])

\* a process that is not the locutor completed a step with shadow pricing
\* enabled and both tables configured
C15_Witness ==
    /\ ~locutor
    /\ pc = "idle"
    /\ raised = NoException
    /\ Len(done) >= 1
    /\ spc.use_shadow_pricing
    /\ {"SHADOW_PRICE_TABLE", "MODELED_SIZE_TABLE"} \subseteq DOMAIN step_settings
    /\ EventsOf("check_fit") # {}

\* the choices returned by the last run_location_choice of the step
FinalChoices ==
    LET runs == EventsOf("run_location_choice")
    IN calls[CHOOSE j \in runs : \A i \in runs : i <= j].choices

\* iterate_location_choice returned a persons table
Returned == pc = "idle" /\ ~persons_df.none

\* C16: in the persons table produced by iterate_location_choice, every person
\* without a choice (filtered out, in no segment of SEGMENT_IDS, or no segment
\* had choosers) has the destination choice column equal to -1, and every
\* person with a choice in the final iteration has exactly that zone id.
C16_ChoiceColumnHoldsFinalChoices ==
    Returned =>
        LET dest == step_settings["DEST_CHOICE_COLUMN_NAME"]
            segment_ids == step_settings["SEGMENT_IDS"]
            codes == {segment_ids[k][2] : k \in DOMAIN segment_ids}
        IN \A i \in DOMAIN persons_df.rows :
             LET row == persons_df.rows[i]
                 chosen == {k \in DOMAIN FinalChoices : FinalChoices[k].id = row.id}
             IN /\ chosen = {} => row.columns[dest] = -1
                /\ \A k \in chosen : row.columns[dest] = FinalChoices[k].value
                /\ (\/ ~row.columns[step_settings["CHOOSER_FILTER_COLUMN_NAME"]]
                    \/ row.columns[step_settings["CHOOSER_SEGMENT_COLUMN_NAME"]] \notin codes)
                     <=> chosen = {}

\* after two iterations with different choices, the table holds a person
\* without choice and a person whose row is not at the position of their choice
C16_Witness ==
    /\ Returned
    /\ Cardinality(EventsOf("run_location_choice")) >= 2
    /\ \E i \in EventsOf("run_location_choice") :
          Len(calls[i].choices) > 0 /\ calls[i].choices # FinalChoices
    /\ \E i, j \in DOMAIN persons_df.rows :
          /\ persons_df.rows[i].columns[step_settings["DEST_CHOICE_COLUMN_NAME"]] = -1
          /\ persons_df.rows[j].columns[step_settings["DEST_CHOICE_COLUMN_NAME"]] # -1
          /\ j \in DOMAIN FinalChoices
          /\ FinalChoices[j].id # persons_df.rows[j].id

\* C17: after iterate_location_choice completes, the persons table of the
\* registry has the DEST_CHOICE_COLUMN_NAME column (and the logsum column when
\* DEST_CHOICE_LOGSUM_COLUMN_NAME is configured), whether or not an
\* annotate_persons block is configured.
C17_PersonsTableHoldsChoiceColumn ==
    \A i \in DOMAIN done :
        LET settings == done[i].model_settings
        IN /\ settings["DEST_CHOICE_COLUMN_NAME"] \in table_registry["persons"].columns
           /\ "DEST_CHOICE_LOGSUM_COLUMN_NAME" \in DOMAIN settings
                => settings["DEST_CHOICE_LOGSUM_COLUMN_NAME"]
                      \in table_registry["persons"].columns

\* the sample table name of a settings file, None if it has none
SampleTableName(settings) == DictGet(settings, "DEST_CHOICE_SAMPLE_TABLE_NAME", None)

\* at the end of the loop: a sample was produced and its table already exists
SampleTableInUse ==
    /\ pc = "save_results"
    /\ ~save_sample_df.none
    /\ is_table(table_registry, SampleTableName(step_settings))

\* C18 (as stated): ... two location choice steps configured with the same
\* sample table name cannot both complete.
C18_SameSampleTableNeverBothComplete ==
    \A i, j \in DOMAIN done :
        (/\ i # j
         /\ "DEST_CHOICE_SAMPLE_TABLE_NAME" \in DOMAIN done[i].model_settings
         /\ "DEST_CHOICE_SAMPLE_TABLE_NAME" \in DOMAIN done[j].model_settings)
          => SampleTableName(done[i].model_settings) # SampleTableName(done[j].model_settings)

\* C18: when DEST_CHOICE_SAMPLE_TABLE_NAME names a table that already exists
\* and a sample was produced, iterate_location_choice raises and neither
\* extends nor replaces that table; so two location choice steps with the same
\* sample table name that each produced a sample cannot both complete.
C18_ExistingSampleTableIsFatal ==
    /\ SampleTableInUse
         => LET r == save_results(table_registry, step_settings, spc, locutor,
                                  choices_df, save_sample_df)
                name == SampleTableName(step_settings)
            IN /\ r.exc # NoException
               /\ r.persons_df.none
               /\ is_table(r.tables, name)
               /\ r.tables[name] = table_registry[name]
    /\ \A i, j \in DOMAIN done :
          (i # j /\ done[i].sampled /\ done[j].sampled)
            => SampleTableName(done[i].model_settings)
                 # SampleTableName(done[j].model_settings)

\* the second step found the sample table of the first and raised
C18_Witness ==
    /\ pc = "idle"
    /\ raised = "RuntimeError"
    /\ Len(done) = 1
    /\ done[1].sampled
    /\ SampleTableName(done[1].model_settings) = SampleTableName(step_settings)
    /\ ~save_sample_df.none
    /\ Len(table_registry[SampleTableName(step_settings)].rows) > 0


\* C25: with use_shadow_pricing not enabled, a run of iterate_location_choice
\* makes exactly one iteration, one call of run_location_choice, whatever
\* max_iterations the shadow price calculator reports.
C25_OneIterationWithoutShadowPricing ==
    ~spc.use_shadow_pricing
      => /\ iteration <= 1
         /\ Cardinality(EventsOf("run_location_choice")) <= 1
         /\ (LoopLeft /\ trace_label # None)
               => Cardinality(EventsOf("run_location_choice")) = 1

\* the chooser ids of the rows of a frame, in row order
RowIds(df) == [i \in DOMAIN df.rows |-> df.rows[i].id]

\* C30: for every SEGMENT_IDS mapping and chooser table, the choices returned
\* by run_location_choice hold each chooser id at most once, a saved sample
\* has the chooser ids of the choices (as many as there are choices), and a
\* chooser is in the choices only if a segment of the mapping has their code.
C30_ChoicesHoldEachChooserOnce ==
    LET ids == RowIds(choices_df)
        segment_ids == step_settings["SEGMENT_IDS"]
        codes == {segment_ids[k][2] : k \in DOMAIN segment_ids}
        choosers == filter_choosers(persons_merged(table_registry),
                                    step_settings["CHOOSER_FILTER_COLUMN_NAME"])
    IN (pc \in {"set_choices", "write_trace_files", "check_fit", "save_results"})
         => /\ \A i, j \in DOMAIN ids : ids[i] = ids[j] => i = j
            /\ ~save_sample_df.none
                 => /\ sample_choosers(save_sample_df) = Range(ids)
                    /\ Cardinality(sample_choosers(save_sample_df)) = Len(ids)
            /\ Range(ids) = {choosers.rows[i].id : i \in
                               {i \in DOMAIN choosers.rows :
                                  choosers.rows[i].columns[
                                     step_settings["CHOOSER_SEGMENT_COLUMN_NAME"]] \in codes}}


---------------------------------------------------------------------------
(* Properties of the step orchestrator *)

\* the message of an error contains the phrase
Contains(error, phrase) == \E i \in DOMAIN error : error[i] = phrase

\* the names of the checkpoints of the open pipeline
Checkpointed == Range(checkpoint_names(pipeline_state.checkpoints))

\* C19: run_model(name) for a step whose checkpoint already exists in the
\* current run (made by this process or loaded by resuming) raises an error
\* containing "more than once", does not execute the step and leaves the
\* checkpoints and the tables unchanged, so that other steps still run.
C19_RunModelTwiceIsFatal ==
    pipeline_state.is_open =>
        \A model_name \in Checkpointed :
            LET r == run_model(pipeline_state, pipeline_store, model_name)
            IN /\ Contains(r.exc, "more than once")
               /\ r.state = pipeline_state
               /\ r.store = pipeline_store
               /\ \A other \in Range(MiniModels) \ Checkpointed :
                     LET next == run_model(r.state, r.store, other)
                     IN /\ next.exc = NoError
                        /\ Len(next.state.checkpoints) = Len(pipeline_state.checkpoints) + 1

\* a step loaded by resuming was run again and refused, with steps left to run
C19_Witness ==
    /\ pipeline_state.is_open
    /\ resumed.resume_after # None
    /\ pipe_last.op = "run_model"
    /\ Contains(pipe_last.exc, "more than once")
    /\ pipe_last.name \in Range(checkpoint_names(resumed.store.checkpoints))
    /\ Len(pipeline_state.checkpoints) =
          checkpoint_index(resumed.store.checkpoints, resumed.resume_after)
    /\ Range(MiniModels) \ Checkpointed # {}

\* C20: resuming after checkpoint X and then running the steps that followed
\* X gives the table contents of the uninterrupted run and the same number of
\* checkpoints: those recorded after X are replaced, not duplicated.
C20_ResumeReplaysRun ==
    (pipeline_state.is_open /\ resumed.resume_after # None) =>
        LET old == resumed.store.checkpoints
            cur == pipeline_state.checkpoints
            k == Len(cur)
            x == checkpoint_index(old, resumed.resume_after)
        IN (k <= Len(old) /\ checkpoint_names(cur) = SubSeq(checkpoint_names(old), 1, k))
             => /\ k >= x
                /\ cur = SubSeq(old, 1, k)
                /\ DOMAIN pipeline_state.tables = DOMAIN old[k].tables
                /\ \A t \in DOMAIN pipeline_state.tables :
                      pipeline_state.tables[t] = resumed.store.frames[<<t, old[k].tables[t]>>]
                /\ Len(get_checkpoints(pipeline_state, pipeline_store)) = k
                /\ k > x =>
                      /\ pipeline_store.checkpoints = cur
                      /\ \A i \in 1..k : \A t \in DOMAIN cur[i].tables :
                            pipeline_store.frames[<<t, cur[i].tables[t]>>]
                              = resumed.store.frames[<<t, cur[i].tables[t]>>]

\* the run resumed after a checkpoint that was not the last and replayed
\* every step that had followed it
C20_Witness ==
    /\ pipeline_state.is_open
    /\ resumed.resume_after # None
    /\ Len(resumed.store.checkpoints) >= 3
    /\ checkpoint_index(resumed.store.checkpoints, resumed.resume_after) + 2
          <= Len(resumed.store.checkpoints)
    /\ checkpoint_names(pipeline_state.checkpoints)
          = checkpoint_names(resumed.store.checkpoints)
    /\ pipe_last.op = "run_model"
    /\ pipe_last.exc = NoError


---------------------------------------------------------------------------
(* Properties of the survey inference *)

\* the number of survey tours of a type that a person has
SurveyTourCount(id, tour_type) ==
    Cardinality({k \in DOMAIN survey_tours :
                    /\ survey_tours[k].person_id = id
                    /\ survey_tours[k].tour_type = tour_type})

\* C24: infer_mandatory_tour_frequency maps each person with w survey work
\* tours and s survey school tours to the label of code w + 10*s in the table
\* 0 '', 1 'work1', 2 'work2', 10 'school1', 20 'school2', 11 'work_and_school'
\* (a code outside the table has no label), and a person with no tours to ''.
C24_LabelOfWorkAndSchoolTours ==
    inferred # <<>> =>
        /\ DOMAIN inferred = DOMAIN survey_persons
        /\ \A i \in DOMAIN survey_persons :
              LET id == survey_persons[i]
                  w == SurveyTourCount(id, "work")
                  s == SurveyTourCount(id, "school")
                  code == w + 10 * s
                  label == inferred[i].value
              IN /\ inferred[i].id = id
                 /\ code = 0 => label = ""
                 /\ code = 1 => label = "work1"
                 /\ code = 2 => label = "work2"
                 /\ code = 10 => label = "school1"
                 /\ code = 20 => label = "school2"
                 /\ code = 11 => label = "work_and_school"
                 /\ code \notin {0, 1, 2, 10, 20, 11} => label = NaN
                 /\ (\A k \in DOMAIN survey_tours : survey_tours[k].person_id # id)
                       => label = ""

\* one person has a work and a school tour, another only a shopping tour
C24_Witness ==
    /\ inferred # <<>>
    /\ \E i, j \in DOMAIN inferred :
          /\ inferred[i].value = "work_and_school"
          /\ inferred[j].value = ""
          /\ SurveyTourCount(inferred[j].id, "shopping") = 1


---------------------------------------------------------------------------
(* Properties of read_model_spec *)

\* the value of a cell as a coefficient: its number, or the number its text
\* spells
CellIsZero(cell) ==
    \/ cell.kind = "num" /\ cell.num = 0
    \/ cell.kind = "str" /\ cell.str \in DOMAIN Numerals /\ Numerals[cell.str] = 0

\* the Expression index values of the table returned by read_model_spec are
\* pairwise distinct
C22_ExpressionIndexUnique ==
    ~model_spec.none =>
        LET rows == model_spec.rows
        IN \A i, j \in DOMAIN rows :
              i # j => rows[i].Expression # rows[j].Expression

\* C22: for every spec file, the table returned by read_model_spec has
\* pairwise distinct Expression index values and contains no row whose
\* coefficients are zero in all alternative columns.
C22_UniqueIndexNoZeroRows ==
    ~model_spec.none =>
        LET rows == model_spec.rows
        IN /\ \A i, j \in DOMAIN rows :
                 i # j => rows[i].Expression # rows[j].Expression
           /\ \A i \in DOMAIN rows :
                 \E c \in DOMAIN rows[i].cells : ~CellIsZero(rows[i].cells[c])


---------------------------------------------------------------------------
(* Properties of the tour mode choice step *)

\* the step tour_mode_choice_simulate ran
StepRan == step_log # <<>>

\* the Estimators that begin_estimation('tour_mode_choice') returned
ModeEstimators == {e \in DOMAIN estimators : estimators[e].model_name = "tour_mode_choice"}

\* the positions of the step's calls of op
StepCalls(op) == {k \in DOMAIN step_log : step_log[k].op = op}

\* the file of a table is in the bundle of the tour mode choice model
ModeFile(table, file_type) ==
    isfile(fs, "tour_mode_choice", BundlePath("tour_mode_choice", table, file_type))

\* C26: in the tour mode choice step the estimation artifacts (coefficients,
\* coefficient template, spec, settings, choosers, choices, and
\* override_choices when an override is configured) are written if and only
\* if begin_estimation('tour_mode_choice') returned an Estimator, and then
\* end_estimation is called exactly once, after get_override_choices and
\* before the tours table is replaced; without that Estimator no tour mode
\* choosers are written, whatever other model is being estimated.
C26_ArtifactsIffEstimator ==
    StepRan =>
        /\ ModeEstimators = {} =>
              /\ \A n \in DOMAIN fs.entries["tour_mode_choice"] : FALSE
              /\ StepCalls("end_estimation") = {}
        /\ \A e \in ModeEstimators :
              /\ ModeFile("coefficients", "csv")
              /\ ModeFile("coefficients_template", "csv")
              /\ ModeFile("SPEC", "csv")
              /\ ModeFile("model_settings", "yaml")
              /\ ModeFile("choosers", "csv")
              /\ ModeFile("choices", "csv")
              /\ ~no_choice_settings(estimators[e]) => ModeFile("override_choices", "csv")
              /\ Cardinality(StepCalls("end_estimation")) = 1
              /\ \A k \in StepCalls("end_estimation") :
                    /\ \E g \in StepCalls("get_override_choices") : g < k
                    /\ \E r \in StepCalls("replace_table") : k < r

\* the spec that eval_coefficients is to return for a segment: each cell the
\* float32 value of its text over the coefficients of that segment
ValueOver(cell, segment_name) ==
    IF cell.kind = "num" THEN cell.num
    ELSE IF cell.str \in DOMAIN Numerals THEN Numerals[cell.str]
    ELSE SumOf([k \in DOMAIN CellTerms[cell.str] |->
                   TemplateDf[segment_name][CellTerms[cell.str][k]]], CoefficientsDf)

Resolvable(cell) ==
    cell.kind = "str" /\ cell.str \notin DOMAIN Numerals
        => Range(CellTerms[cell.str]) \subseteq {"coef_ivt", "coef_cost"}

ResolvedFor(spec, segment_name) ==
    [i \in DOMAIN spec |->
        [spec[i] EXCEPT !.cells =
            [c \in DOMAIN @ |-> NumCell(astype_float32(ValueOver(@[c], segment_name)))]]]

\* eval_coefficients leaves the caller's spec as it was read, and every spec
\* it returned holds the values of the cells' texts over the coefficients of
\* the segment it was resolved for, in whatever order the segments came
C27_EvalCoefficientsFrame ==
    /\ mode_spec = mode_spec_file
    /\ \A t \in DOMAIN resolved : resolved[t] = ResolvedFor(mode_spec_file, t)

\* C27: eval_coefficients leaves its input spec unchanged and returns a new
\* spec whose cells are the values of the cells' texts over the coefficient
\* mapping; hence tour_mode_choice_simulate gives each tour type of the tours
\* the coefficients of its own segment, regardless of the order of the types.
C27_EachTourTypeOwnCoefficients ==
    /\ mode_spec = mode_spec_file
    /\ \A t \in DOMAIN resolved : resolved[t] = ResolvedFor(mode_spec_file, t)
    /\ (/\ StepRan
        /\ step_exc # "AssertionError"
        /\ \A i \in DOMAIN mode_spec_file : \A c \in DOMAIN mode_spec_file[i].cells :
              Resolvable(mode_spec_file[i].cells[c]))
          => \A t \in Range(grouped_tour_types(tours_table)) :
                /\ t \in DOMAIN resolved
                /\ resolved[t] = ResolvedFor(mode_spec_file, t)


---------------------------------------------------------------------------
(* Properties of simple_simulate *)

\* what the same call returns when it runs in one batch
OneBatch == simple_simulate(sim_choosers, sim_spec, 0, sim_estimator, base_seed)

\* the batches of the call
SimChunks ==
    chunked_choosers(sim_choosers, simple_simulate_rpc(sim_chunk_size, sim_choosers, sim_spec))

\* the call returns exactly when the one-batch run returns, with the same
\* choices: one choice per chooser id, in the row order of the choosers
SameAsOneBatch ==
    /\ (sim_result.exc = NoException) = (OneBatch.exc = NoException)
    /\ sim_result.choices = OneBatch.choices
    /\ sim_result.exc = NoException => IndexOf(sim_result.choices) = IndexOf(sim_choosers)

\* every expression of the spec takes its value for a chooser from that
\* chooser's row alone
RowWise(spec) ==
    \A i \in DOMAIN spec.rows : spec.rows[i].Expression # <<"@", "df.x.max()">>

\* C21 (as stated): for the same choosers, spec and base seed, simple_simulate
\* returns the same result for every chunk_size: one choice per chooser id, in
\* the original row order, each independent of the chunk the chooser fell into.
C21_SameResultForEveryChunkSize ==
    sim_result.done /\ sim_choosers # <<>> => SameAsOneBatch

\* C21 (amended): the same, for a spec whose expressions are evaluated row by
\* row; an expression over the whole frame (@df.x.max()) takes its value from
\* the chunk.
C21_SameResultForRowWiseSpec ==
    sim_result.done /\ sim_choosers # <<>> /\ RowWise(sim_spec) => SameAsOneBatch

\* a row-wise spec was simulated in more than one chunk and both alternatives
\* were chosen
C21_Witness ==
    /\ sim_result.done
    /\ sim_result.exc = NoException
    /\ RowWise(sim_spec)
    /\ Len(SimChunks) > 1
    /\ \E i, j \in DOMAIN sim_result.choices :
          sim_result.choices[i].value # sim_result.choices[j].value

\* the first batch over which an expression of the spec raises
FailingChunks == {k \in DOMAIN SimChunks : raising_rows(sim_spec, SimChunks[k]) # {}}
FirstFailingChunk == CHOOSE k \in FailingChunks : \A j \in FailingChunks : k <= j

\* the evaluation of an expression raised in this call
ExpressionRaised == sim_result.done /\ log_lines # <<>>

\* eval_utilities logged the text of the expression that raised, re-raised,
\* and handed nothing of the failing chunk to the estimator; simple_simulate
\* returned no choices
RaisedAndLogged ==
    LET chunk == SimChunks[FirstFailingChunk]
        row == CHOOSE i \in raising_rows(sim_spec, chunk) :
                  \A k \in raising_rows(sim_spec, chunk) : i <= k
    IN /\ sim_result.exc = eval_expression(sim_spec.rows[row].Expression, chunk).exc
       /\ sim_result.exc # NoException
       /\ log_lines = <<sim_spec.rows[row].Expression>>
       /\ sim_result.choices = <<>>
       /\ \A k \in DOMAIN expression_values_written :
             expression_values_written[k] # IndexOf(chunk)

\* C23 (as stated): if evaluating a spec expression raises, eval_utilities
\* re-raises after logging the expression text, returns no utilities, no
\* choice is drawn for any chooser of the step, and write_expression_values is
\* not called for that chunk.
C23_NoChoiceDrawnInStep ==
    ExpressionRaised =>
        /\ RaisedAndLogged
        /\ \A id \in DOMAIN rng_offsets : rng_offsets[id] = 0

\* C23 (amended): the same, but no choice is drawn for the choosers of the
\* failing chunk and of the chunks after it; the chunks before it were
\* simulated and their draws made, and the step returns no choices.
C23_NoChoiceDrawnFromFailingChunk ==
    ExpressionRaised =>
        /\ RaisedAndLogged
        /\ \A k \in DOMAIN SimChunks : \A i \in DOMAIN SimChunks[k] :
              rng_offsets[SimChunks[k][i].id] = IF k < FirstFailingChunk THEN 1 ELSE 0

\* an expression raised in the second chunk, after the first was simulated and
\* written to the estimator
C23_Witness ==
    /\ ExpressionRaised
    /\ FirstFailingChunk = 2
    /\ Len(expression_values_written) = 1
    /\ sim_result.exc = "ValueError"

====
